---- MODULE Spec2Model ----
(***************************************************************************)
(* A model of the linuiz kernel core: the round-robin scheduler            *)
(* (kernel/src/task/scheduling.rs) driven by the IRQ router                *)
(* (kernel/src/arch/x86_64/structures/idt/stubs.rs), and the physical      *)
(* memory manager (kernel/src/mem/pmm.rs).                                 *)
(***************************************************************************)
EXTENDS Integers, Sequences, FiniteSets, TLC

(***************************************************************************)
(* Bounds of the model.                                                    *)
(***************************************************************************)
\* Number of hardware threads.
NumThreads == 2
\* Largest number of tasks loaded into the run queue at the start.
MaxLoaded == 2
\* Cap on the timer interrupts taken, over all threads.
MaxFires == 3
\* Cap on the instructions the user tasks execute between timer interrupts,
\* over all threads.
MaxSteps == 1
\* Cap on the syscalls issued, over all threads.
MaxSyscalls == 2
\* Largest value a user task writes to a register.
MaxRegVal == 1
\* Largest run queue and cap on the timer interrupts of the round-robin runs.
MaxTasks == 3
MaxRoundRobinFires == 5

\* Frames of physical memory and entries of the memory maps PhysicalMemoryManager::init is given.
MaxMapFrames == 4
MaxEntries == 3
\* Cap on the calls to the physical memory manager, over all threads.
MaxPmmCalls == 2
\* Largest run of frames asked of next_frames.
MaxCount == 2
\* Bits of a virtual address that index one page table: the 9 bits of x86_64
\* scaled down, so that a table has 2^TableIndexBits entries.
TableIndexBits == 3
\* Frames of the USABLE entry the page tables are allocated from.
MaxPagingFrames == 14
\* Cap on the calls made on a Mapper or AddressSpace.
MaxMapperCalls == 2
\* Longest duration, in microseconds, asked of Stopwatch::spin_wait, the most
\* ticks the PM timer advances between two reads, and a cap on those reads.
MaxDurationUs == 2
MaxAdvance == 4
MaxReads == 4
\* Bits of the local APIC timer's count (a u32 in the code) and of the
\* timestamp counter (a u64), scaled down.
LapicCountBits == 8
TscBits == 10
\* Longest kernel command line, in tokens and the spaces between them.
MaxCmdlineLen == 4
\* Cap on the calls made on the kernel mapper and a user AddressSpace together.
MaxAddressSpaceCalls == 3
\* Pages of one mmap or set_flags.
MaxPageCount == 2

Threads == 1..NumThreads

\* Option<T>: None is the empty sequence, Some(x) the sequence holding x.
None == <<>>
Some(x) == <<x>>
unwrap(option) == option[1]

(***************************************************************************)
(* Task contexts.                                                          *)
(***************************************************************************)
\* task/context/x86_64.rs: the general registers pushed by the entry stub.
RegNames ==
    {"rax", "rbx", "rcx", "rdx", "rdi", "rsi", "rbp", "r8", "r9", "r10",
     "r11", "r12", "r13", "r14", "r15"}

\* Registers::empty()
Registers_empty == [r \in RegNames |-> 0]

\* Address of interrupts::wait_indefinite.
WAIT_INDEFINITE == 4096

\* Size of the idle stack, Stack<0x1000>.
IDLE_STACK_SIZE == 4096

\* Where the boxed idle stack of hardware thread h lives.
idle_stack(h) == 65536 * h

\* Stack::top(): the address one past the last byte of the stack.
Stack_top(base, n) == base + n

\* Segment selectors (gdt.rs) and flags found in an interrupt stack frame.
KERNEL_CS == "KCODE_SELECTOR"
KERNEL_SS == "KDATA_SELECTOR"
USER_CS == "UCODE_SELECTOR"
USER_SS == "UDATA_SELECTOR"
RFLAGS_IF == "INTERRUPT_FLAG"

\* The hardware-pushed interrupt stack frame.
InterruptStackFrame(ip, cs, fl, sp, ss) ==
    [instruction_pointer |-> ip, code_selector |-> cs, rflags |-> fl,
     stack_pointer |-> sp, stack_selector |-> ss]

set_instruction_pointer(frame, address) ==
    [frame EXCEPT !.instruction_pointer = address]

set_stack_pointer(frame, address) ==
    [frame EXCEPT !.stack_pointer = address]

\* The context a hardware thread is in when it enters the indefinite wait at
\* the end of its start-up: kernel code on the boot stack, registers holding
\* whatever start-up left in them.
BootRegisters(h) == [r \in RegNames |-> 7 + h]
BootFrame(h) ==
    InterruptStackFrame(WAIT_INDEFINITE, KERNEL_CS, RFLAGS_IF, 1048576 * h, KERNEL_SS)

\* The context of a freshly loaded user task.
UserEntry(id) == 4194304 + 16 * id
UserStack(id) == 8388608 + 65536 * id
InitialRegisters(id) == [Registers_empty EXCEPT !["rdi"] = 100 + id]
InitialFrame(id) ==
    InterruptStackFrame(UserEntry(id), USER_CS, RFLAGS_IF, UserStack(id), USER_SS)
NewTask(id) == [id |-> id, context |-> <<InitialFrame(id), InitialRegisters(id)>>]

\* The registers a user task writes in the model.
UserRegs == {"rax", "rsi", "r15"}

VARIABLES
    \* scheduling.rs
    PROCESSES,          \* the global run queue, a sequence of tasks
    PROCESSES_lock,     \* the thread holding the run-queue mutex, or None
    task,               \* Scheduler::task of each thread's local scheduler
    isf,                \* each thread's interrupt stack frame / current context
    regs,               \* each thread's general registers
    cr3,                \* the address space installed on each thread (task id, 0 = kernel)
    preemption_wait,    \* milliseconds of the armed preemption wait, or None
    pc,                 \* where each thread is
    \* history
    fires,              \* timer interrupts handled so far
    steps,              \* user instructions executed
    syscalls,           \* syscalls issued
    snapshot,           \* per task: the ISR frame captured at its last timer preemption
    dead,               \* tasks removed by kill_task
    tasks               \* ids of the tasks loaded at the start

sched_vars ==
    <<PROCESSES, PROCESSES_lock, task, isf, regs, cr3, preemption_wait, pc,
      fires, steps, syscalls, snapshot, dead, tasks>>

VARIABLES
    \* mem/pmm.rs
    memory_map,         \* the bootloader's memory map, a sequence of entries
    pmm_state,          \* "boot" before PhysicalMemoryManager::init, then "ready" or "panicked"
    table,              \* the frame table: bit index -> BOOLEAN, TRUE = locked
    total_frames,       \* PhysicalMemoryManager::total_frames
    table_readers,      \* the threads holding a read guard of the table's RwLock
    pmm_pc,             \* where each thread is inside the manager
    pmm_arg,            \* the frame address a thread's lock_frame / free_frame was given
    pmm_ret,            \* what the last completed call returned
    \* history
    pmm_calls,          \* calls made to the manager
    table0,             \* the frame table as construction left it
    net_locked          \* frames locked by successful calls minus frames freed by successful calls

pmm_vars ==
    <<memory_map, pmm_state, table, total_frames, table_readers, pmm_pc,
      pmm_arg, pmm_ret, pmm_calls, table0, net_locked>>

VARIABLES
    \* mem/hhdm.rs and mem/alloc.rs
    hhdm_base,          \* HigherHalfDirectMap::base_address
    hhdm_call,          \* the last conversion: the function, its argument, its result
    alloc_pc,           \* "idle", "allocated" while an allocation is live, or "panicked"
    alloc_ptr,          \* the address allocate returned, if an allocation is live
    alloc_layout,       \* the Layout <<size, align>> of the last allocate
    \* history
    alloc_before        \* the frame table when the live allocation was requested

alloc_vars == <<hhdm_base, hhdm_call, alloc_pc, alloc_ptr, alloc_layout, alloc_before>>

VARIABLES
    \* mem/mapper.rs, mem/mod.rs and task/address_space.rs
    frame_memory,       \* the page-table entries each frame holds: frame index -> table index -> entry
    kernel_root,        \* the root frame of KERNEL_MAPPER
    user_root,          \* the root frame of the user AddressSpace, if one is constructed
    mapper_call,        \* the last call on a Mapper or AddressSpace: function, arguments, result
    \* history
    mapper_calls,       \* calls made on a Mapper or AddressSpace
    memory_before,      \* frame_memory before the last call
    table_before,       \* the frame table before the last call
    debug_assertions    \* whether the build keeps debug_assert!

paging_vars ==
    <<frame_memory, kernel_root, user_root, mapper_call, mapper_calls, memory_before,
      table_before, debug_assertions>>

VARIABLES
    \* interrupts/syscall.rs
    klog_call,          \* the last Klog syscall: arguments, demand_map calls in order, result
    \* arch/x86_64/structures/idt
    idt,                \* the InterruptDescriptorTable: vector -> Entry, empty before init
    delivery            \* the last interrupt the processor took through the table

gate_vars == <<klog_call, idt, delivery>>

VARIABLES
    \* arch/x86_64/devices/x2apic
    icr,                \* the last InterruptCommand built and what became of it
    \* time/stopwatch.rs
    stopwatch,          \* the Stopwatch singleton and the spin_wait in progress
    \* time/local_timer/x86_64.rs
    local_timer,        \* the last LocalTimer::set_wait and the registers it wrote
    \* params.rs
    params,             \* PARAMS: the command line given and the Parameters parsed from it
    \* interrupts/mod.rs
    cell                \* per thread: the InterruptCell::with in progress and the flag it read

device_vars == <<icr, stopwatch, local_timer, params, cell>>

VARIABLES
    \* cpu/mod.rs
    machine,            \* what the bootloader reports: hardware threads, MP response, stacks
    boot_pc,            \* where each hardware thread is in its start-up
    sync,               \* ENTRY_TO_CHECK, IS_ENTRY_USED and the two barriers of synchronize
    bsp,                \* the bootstrap thread's place in the memory map and its current range
    barrier_gen,        \* the barrier generation each waiting thread saw when it arrived
    hw,                 \* per thread: TSS, local interrupt controller, Local State, IF, steps taken
    \* history
    reclaimed           \* the frames the reclaim procedure has freed

startup_vars == <<machine, boot_pc, sync, bsp, barrier_gen, hw, reclaimed>>

boot_vars == <<device_vars, startup_vars>>

\* Everything but the scheduler's state, everything but the manager's, and
\* everything but the scheduler's and the manager's.
not_sched_vars == <<pmm_vars, alloc_vars, paging_vars, gate_vars, boot_vars>>
not_pmm_vars == <<sched_vars, alloc_vars, paging_vars, gate_vars, boot_vars>>
not_sched_pmm_vars == <<alloc_vars, paging_vars, gate_vars, boot_vars>>
not_boot_vars == <<sched_vars, pmm_vars, alloc_vars, paging_vars, gate_vars>>
not_icr == <<stopwatch, local_timer, params, cell, startup_vars>>
not_stopwatch == <<icr, local_timer, params, cell, startup_vars>>
not_local_timer == <<icr, stopwatch, params, cell, startup_vars>>
not_params == <<icr, stopwatch, local_timer, cell, startup_vars>>

vars == <<sched_vars, pmm_vars, alloc_vars, paging_vars, gate_vars, boot_vars>>

(***************************************************************************)
(* The scheduler, task/scheduling.rs.                                      *)
(***************************************************************************)
\* The literal of Duration::from_millis(15) in next_task.
PREEMPTION_WAIT_MS == 15

\* The address space of the kernel, installed on every thread at start-up.
KERNEL_ADDRESS_SPACE == 0

\* A snapshot that copies the frame and leaves the saved registers stale.
save_context_frame_only(process, state, r) ==
    [process EXCEPT !.context = <<state, process.context[2]>>]

\* process.context.0 = *state; process.context.1 = *regs;
save_context(process, state, r) == [process EXCEPT !.context = <<state, r>>]

\* A queue that takes the preempted task at its front.
push_front(processes, process) == <<process>> \o processes

\* VecDeque::push_back
push_back(processes, process) == Append(processes, process)

\* A pop that reads the front of the queue and leaves it there.
peek_front(processes) == processes

\* What VecDeque::pop_front leaves in the queue.
pop_front(processes) == Tail(processes)

\* An idle context that keeps the stack pointer of the interrupted context.
idle_context_stale_stack(h, frame) ==
    <<set_instruction_pointer(frame, WAIT_INDEFINITE), Registers_empty>>

\* The idle branch of next_task: the wait loop on this thread's idle stack
\* with empty registers; the other fields of the frame are left as they are.
idle_context(h, frame) ==
    <<set_stack_pointer(set_instruction_pointer(frame, WAIT_INDEFINITE),
                        Stack_top(idle_stack(h), IDLE_STACK_SIZE)),
      Registers_empty>>

\* Scheduler::next_task. The result names the new value of every piece of
\* state the function writes.
next_task(h, processes, frame, r, root) ==
    IF processes # <<>>
    THEN LET next_process == Head(processes) IN
         [processes |-> pop_front(processes),
          isf |-> next_process.context[1],
          regs |-> next_process.context[2],
          \* swap_into() unless the address space is the current one
          cr3 |-> IF root = next_process.id THEN root ELSE next_process.id,
          task |-> Some(next_process),
          wait |-> Some(PREEMPTION_WAIT_MS)]
    ELSE [processes |-> processes,
          isf |-> idle_context(h, frame)[1],
          regs |-> idle_context(h, frame)[2],
          cr3 |-> root,
          task |-> None,
          wait |-> Some(PREEMPTION_WAIT_MS)]

\* <Result as ResultConverter>::into_registers(Ok(Success::Ok)): the two
\* words the IRQ router stores in rdi and rsi after a syscall.
into_registers_ok == <<MaxRegVal + 1, MaxRegVal + 2>>

\* A user task executes an instruction that writes register r.
UserStep(h, r, v) ==
    /\ UNCHANGED not_sched_vars
    /\ pc[h] = "run"
    /\ task[h] # None
    /\ regs' = [regs EXCEPT ![h][r] = v]
    /\ isf' = [isf EXCEPT ![h].instruction_pointer = @ + 1]
    /\ steps' = steps + 1
    /\ UNCHANGED <<PROCESSES, PROCESSES_lock, task, cr3, preemption_wait, pc,
                   fires, syscalls, snapshot, dead, tasks>>

\* The timer vector is delivered: the entry stub has pushed the registers and
\* __irq_handler is about to take the run-queue mutex.
TimerIrq(h) ==
    /\ UNCHANGED not_sched_vars
    /\ pc[h] = "run"
    /\ pc' = [pc EXCEPT ![h] = "timer_irq"]
    /\ preemption_wait' = [preemption_wait EXCEPT ![h] = None]
    /\ UNCHANGED <<PROCESSES, PROCESSES_lock, task, isf, regs, cr3,
                   fires, steps, syscalls, snapshot, dead, tasks>>

\* PROCESSES.lock() in interrupt_task.
interrupt_task_lock(h) ==
    /\ UNCHANGED not_sched_vars
    /\ pc[h] = "timer_irq"
    /\ PROCESSES_lock = None
    /\ PROCESSES_lock' = Some(h)
    /\ pc' = [pc EXCEPT ![h] = "interrupt_task"]
    /\ UNCHANGED <<PROCESSES, task, isf, regs, cr3, preemption_wait,
                   fires, steps, syscalls, snapshot, dead, tasks>>

\* Scheduler::interrupt_task under the mutex, then the end of __irq_handler.
interrupt_task(h) ==
    /\ UNCHANGED not_sched_vars
    /\ pc[h] = "interrupt_task"
    /\ LET processes == IF task[h] # None
                        THEN push_back(PROCESSES, save_context(unwrap(task[h]), isf[h], regs[h]))
                        ELSE PROCESSES
           n == next_task(h, processes, isf[h], regs[h], cr3[h])
       IN /\ PROCESSES' = n.processes
          /\ task' = [task EXCEPT ![h] = n.task]
          /\ isf' = [isf EXCEPT ![h] = n.isf]
          /\ regs' = [regs EXCEPT ![h] = n.regs]
          /\ cr3' = [cr3 EXCEPT ![h] = n.cr3]
          /\ preemption_wait' = [preemption_wait EXCEPT ![h] = n.wait]
    /\ snapshot' = IF task[h] # None
                   THEN [snapshot EXCEPT ![unwrap(task[h]).id] = Some(<<isf[h], regs[h]>>)]
                   ELSE snapshot
    /\ PROCESSES_lock' = None
    /\ pc' = [pc EXCEPT ![h] = "run"]
    /\ fires' = fires + 1
    /\ UNCHANGED <<steps, syscalls, dead, tasks>>

\* A user task raises the syscall vector with TaskYield or TaskExit in rax.
Syscall(h, vector) ==
    /\ UNCHANGED not_sched_vars
    /\ pc[h] = "run"
    /\ task[h] # None
    /\ pc' = [pc EXCEPT ![h] = IF vector = "TaskYield" THEN "yield_task_lock"
                                                       ELSE "kill_task"]
    /\ syscalls' = syscalls + 1
    /\ UNCHANGED <<PROCESSES, PROCESSES_lock, task, isf, regs, cr3,
                   preemption_wait, fires, steps, snapshot, dead, tasks>>

\* PROCESSES.lock() in yield_task.
yield_task_lock(h) ==
    /\ UNCHANGED not_sched_vars
    /\ pc[h] = "yield_task_lock"
    /\ PROCESSES_lock = None
    /\ PROCESSES_lock' = Some(h)
    /\ pc' = [pc EXCEPT ![h] = "yield_task"]
    /\ UNCHANGED <<PROCESSES, task, isf, regs, cr3, preemption_wait,
                   fires, steps, syscalls, snapshot, dead, tasks>>

\* Scheduler::yield_task under the mutex, then the rest of the syscall arm of
\* __irq_handler, which stores the result in rdi and rsi. Without a running
\* task the expect() panics with the mutex held.
yield_task(h) ==
    /\ UNCHANGED not_sched_vars
    /\ pc[h] = "yield_task"
    /\ IF task[h] = None
       THEN /\ pc' = [pc EXCEPT ![h] = "panicked"]
            /\ UNCHANGED <<PROCESSES, PROCESSES_lock, task, isf, regs, cr3,
                           preemption_wait>>
       ELSE LET processes == push_back(PROCESSES, save_context(unwrap(task[h]), isf[h], regs[h]))
                n == next_task(h, processes, isf[h], regs[h], cr3[h])
            IN /\ PROCESSES' = n.processes
               /\ task' = [task EXCEPT ![h] = n.task]
               /\ isf' = [isf EXCEPT ![h] = n.isf]
               /\ regs' = [regs EXCEPT ![h] = [n.regs EXCEPT !["rdi"] = into_registers_ok[1],
                                                             !["rsi"] = into_registers_ok[2]]]
               /\ cr3' = [cr3 EXCEPT ![h] = n.cr3]
               /\ preemption_wait' = [preemption_wait EXCEPT ![h] = n.wait]
               /\ PROCESSES_lock' = None
               /\ pc' = [pc EXCEPT ![h] = "run"]
    /\ UNCHANGED <<fires, steps, syscalls, snapshot, dead, tasks>>

\* The start of Scheduler::kill_task: the running task is taken out of the
\* slot, to be dropped. Without a running task the expect() panics.
kill_task(h) ==
    /\ UNCHANGED not_sched_vars
    /\ pc[h] = "kill_task"
    /\ IF task[h] = None
       THEN /\ pc' = [pc EXCEPT ![h] = "panicked"]
            /\ UNCHANGED <<task, dead>>
       ELSE /\ task' = [task EXCEPT ![h] = None]
            /\ dead' = dead \cup {unwrap(task[h]).id}
            /\ pc' = [pc EXCEPT ![h] = "kill_task_lock"]
    /\ UNCHANGED <<PROCESSES, PROCESSES_lock, isf, regs, cr3, preemption_wait,
                   fires, steps, syscalls, snapshot, tasks>>

\* PROCESSES.lock() in kill_task.
kill_task_lock(h) ==
    /\ UNCHANGED not_sched_vars
    /\ pc[h] = "kill_task_lock"
    /\ PROCESSES_lock = None
    /\ PROCESSES_lock' = Some(h)
    /\ pc' = [pc EXCEPT ![h] = "kill_task_next"]
    /\ UNCHANGED <<PROCESSES, task, isf, regs, cr3, preemption_wait,
                   fires, steps, syscalls, snapshot, dead, tasks>>

\* The end of Scheduler::kill_task: next_task under the mutex, then the rest
\* of the syscall arm of __irq_handler.
kill_task_next(h) ==
    /\ UNCHANGED not_sched_vars
    /\ pc[h] = "kill_task_next"
    /\ LET n == next_task(h, PROCESSES, isf[h], regs[h], cr3[h])
       IN /\ PROCESSES' = n.processes
          /\ task' = [task EXCEPT ![h] = n.task]
          /\ isf' = [isf EXCEPT ![h] = n.isf]
          /\ regs' = [regs EXCEPT ![h] = [n.regs EXCEPT !["rdi"] = into_registers_ok[1],
                                                        !["rsi"] = into_registers_ok[2]]]
          /\ cr3' = [cr3 EXCEPT ![h] = n.cr3]
          /\ preemption_wait' = [preemption_wait EXCEPT ![h] = n.wait]
    /\ PROCESSES_lock' = None
    /\ pc' = [pc EXCEPT ![h] = "run"]
    /\ UNCHANGED <<fires, steps, syscalls, snapshot, dead, tasks>>

(***************************************************************************)
(* The physical memory manager, mem/pmm.rs.                                *)
(***************************************************************************)
\* libsys::page_shift() and libsys::page_size().
PAGE_SHIFT == 12
PAGE_SIZE == 2 ^ PAGE_SHIFT

\* usize::BITS, usize::BITS.trailing_zeros() and size_of::<usize>().
USIZE_BITS == 64
USIZE_BITS_SHIFT == 6
USIZE_BYTES == 8

\* libsys::align_up_div: value divided by 2^shift, rounded up.
align_up_div(value, shift) == (value + (2 ^ shift) - 1) \div (2 ^ shift)

\* Address::<Frame>::index() and the address of the frame with an index.
Address_index(address) == address \div PAGE_SIZE
Address_from_index(index) == index * PAGE_SIZE

\* The entry types of a memory map the model draws from.
EntryTypes == {"USABLE", "RESERVED", "BOOTLOADER_RECLAIMABLE"}

\* One entry covering the frames first..(first + count - 1).
Entry(first, count, type) ==
    [base |-> first * PAGE_SIZE, length |-> count * PAGE_SIZE, entry_type |-> type]

\* The memory maps with at most n entries, all above frame lo and below frame
\* hi: page-aligned entries sorted by base that do not overlap and may leave
\* gaps between them.
RECURSIVE MapsFrom(_, _, _)
MapsFrom(lo, hi, n) ==
    IF n = 0 \/ lo >= hi
    THEN {<<>>}
    ELSE {<<>>} \cup
         UNION {UNION {{<<Entry(first, count, type)>> \o rest :
                            rest \in MapsFrom(first + count, hi, n - 1)} :
                        count \in 1..(hi - first), type \in EntryTypes} :
                first \in lo..(hi - 1)}

\* The length of a bit slice, whose bits are indexed from 0.
BitLen(bits) == Cardinality(DOMAIN bits)

\* BitSlice::get_mut(from..to) on a slice of len bits is Some.
get_mut_ok(len, from, to) == from <= to /\ to <= len

\* BitSlice::get_mut(from..to).fill(value)
fill(bits, from, to, value) ==
    [i \in DOMAIN bits |-> IF from <= i /\ i < to THEN value ELSE bits[i]]

\* BitSlice::set_unchecked / set_aliased_unchecked
set_bit(bits, index, value) == [bits EXCEPT ![index] = value]

\* The values PhysicalMemoryManager::init computes before it fills the table.
total_frames_of(map) ==
    align_up_div(map[Len(map)].base + map[Len(map)].length, PAGE_SHIFT)
table_slice_len_of(map) == align_up_div(total_frames_of(map), USIZE_BITS_SHIFT)
table_area_in_bytes_of(map) ==
    align_up_div(table_slice_len_of(map) * USIZE_BYTES, PAGE_SHIFT) * PAGE_SIZE

\* The first USABLE entry that fits the table.
fitting_entries(map) ==
    {i \in 1..Len(map) : /\ map[i].entry_type = "USABLE"
                         /\ map[i].length >= table_area_in_bytes_of(map)}
select_region(map) ==
    LET i == CHOOSE i \in fitting_entries(map) : \A j \in fitting_entries(map) : i <= j
    IN [start |-> map[i].base, end |-> map[i].base + table_area_in_bytes_of(map)]

\* lock_entries without the fill of the space between two entries.
RECURSIVE lock_entries_no_inbetween(_, _, _, _)
lock_entries_no_inbetween(map, i, bits, prev_entry_range_end) ==
    IF i > Len(map)
    THEN bits
    ELSE lock_entries_no_inbetween(map, i + 1,
             IF map[i].entry_type # "USABLE"
             THEN fill(bits, map[i].base \div PAGE_SIZE,
                       (map[i].base + map[i].length) \div PAGE_SIZE, TRUE)
             ELSE bits,
             Some(map[i].base + map[i].length))

\* The for_each over the entries: lock the space between two entries and lock
\* every entry that is not USABLE.
RECURSIVE lock_entries(_, _, _, _)
lock_entries(map, i, bits, prev_entry_range_end) ==
    IF i > Len(map)
    THEN bits
    ELSE LET entry_start == map[i].base
             entry_end == map[i].base + map[i].length
             inbetween ==
                 IF prev_entry_range_end # None /\ unwrap(prev_entry_range_end) < entry_start
                 THEN fill(bits, unwrap(prev_entry_range_end) \div PAGE_SIZE,
                           entry_start \div PAGE_SIZE, TRUE)
                 ELSE bits
             locked ==
                 IF map[i].entry_type # "USABLE"
                 THEN fill(inbetween, entry_start \div PAGE_SIZE, entry_end \div PAGE_SIZE, TRUE)
                 ELSE inbetween
         IN lock_entries(map, i + 1, locked, Some(entry_end))

\* The unwrap() and expect() calls of init that fail on this map.
init_panics(map) ==
    \/ map = <<>>
    \/ fitting_entries(map) = {}
    \/ LET len == table_slice_len_of(map) * USIZE_BITS IN
           \/ ~get_mut_ok(len, total_frames_of(map), len)
           \/ ~get_mut_ok(len, select_region(map).start \div PAGE_SIZE,
                           select_region(map).end \div PAGE_SIZE)
           \/ \E i \in 1..Len(map) :
                  /\ map[i].entry_type # "USABLE"
                  /\ ~get_mut_ok(len, map[i].base \div PAGE_SIZE,
                                 (map[i].base + map[i].length) \div PAGE_SIZE)
           \/ \E i \in 1..(Len(map) - 1) :
                  /\ map[i].base + map[i].length < map[i + 1].base
                  /\ ~get_mut_ok(len, (map[i].base + map[i].length) \div PAGE_SIZE,
                                 map[i + 1].base \div PAGE_SIZE)

\* The frame table PhysicalMemoryManager::init builds.
init_table(map) ==
    LET zeroed == [i \in 0..(table_slice_len_of(map) * USIZE_BITS - 1) |-> FALSE]
        padded == fill(zeroed, total_frames_of(map), BitLen(zeroed), TRUE)
        own == fill(padded, select_region(map).start \div PAGE_SIZE,
                    select_region(map).end \div PAGE_SIZE, TRUE)
    IN lock_entries(map, 1, own, None)

\* first_zero that scans from the top of the slice.
first_zero_from_top(bits) ==
    IF \E i \in DOMAIN bits : ~bits[i]
    THEN Some(CHOOSE i \in DOMAIN bits : ~bits[i] /\ \A j \in DOMAIN bits : j > i => bits[j])
    ELSE None

\* BitSlice::first_zero
first_zero(bits) ==
    IF \E i \in DOMAIN bits : ~bits[i]
    THEN Some(CHOOSE i \in DOMAIN bits : ~bits[i] /\ \A j \in DOMAIN bits : j < i => bits[j])
    ELSE None

\* align_index_skip without the shift by the page shift.
align_index_skip_unshifted(align_bits) ==
    IF align_bits = None THEN 1 ELSE unwrap(align_bits)

\* u32::max(1, align_bits >> page_shift) with align_bits defaulting to 1.
align_index_skip(align_bits) ==
    LET bits == IF align_bits = None THEN 1 ELSE unwrap(align_bits)
        shifted == bits \div (2 ^ PAGE_SHIFT)
    IN IF shifted > 1 THEN shifted ELSE 1

\* BitSlice::windows(count): the window that starts at an index, and the
\* number of windows of a slice of len bits.
window(bits, index, count) == [j \in 0..(count - 1) |-> bits[index + j]]
windows_len(len, count) == IF len >= count THEN len - count + 1 ELSE 0

\* BitSlice::not_any
not_any(w) == \A j \in DOMAIN w : ~w[j]

\* .enumerate().step_by(skip): the iterator yields the windows at the indices
\* 0, skip, 2 * skip, ... below the number of windows.
step_by(len, skip) == {index \in 0..(len - 1) : index % skip = 0}

\* .find_map(|(index, window)| window.not_any().then_some(index)): the first
\* index the iterator yields whose window has no bit set.
find_map(bits, count, indices) ==
    LET found == {index \in indices : not_any(window(bits, index, count))}
    IN IF found = {} THEN None
       ELSE Some(CHOOSE index \in found : \A other \in found : index <= other)

free_frames_index(bits, count, align_bits) ==
    find_map(bits, count,
             step_by(windows_len(BitLen(bits), count), align_index_skip(align_bits)))

\* A completed call: the operation, its arguments, and the Result it returned.
Return(op, args, result, value) == [op |-> op, args |-> args, result |-> result, value |-> value]

\* PhysicalMemoryManager::init, run once by the bootstrap thread.
PhysicalMemoryManager_init ==
    /\ pmm_state = "boot"
    /\ IF init_panics(memory_map)
       THEN /\ pmm_state' = "panicked"
            /\ UNCHANGED <<table, total_frames, table0>>
       ELSE /\ pmm_state' = "ready"
            /\ table' = init_table(memory_map)
            /\ total_frames' = total_frames_of(memory_map)
            /\ table0' = init_table(memory_map)
    /\ UNCHANGED <<memory_map, table_readers, pmm_pc, pmm_arg, pmm_ret, pmm_calls, net_locked>>
    /\ UNCHANGED not_pmm_vars

\* PhysicalMemoryManager::next_frame. The write guard excludes every reader
\* and writer for the whole call, so the call is one step.
next_frame(h) ==
    /\ pmm_state = "ready"
    /\ pmm_pc[h] = "idle"
    /\ table_readers = {}
    /\ LET index == first_zero(table) IN
       IF index = None
       THEN /\ pmm_ret' = Return("next_frame", <<>>, "NoneFree", 0)
            /\ UNCHANGED <<table, net_locked>>
       ELSE /\ table' = set_bit(table, unwrap(index), TRUE)
            /\ pmm_ret' = Return("next_frame", <<>>, "Ok", Address_from_index(unwrap(index)))
            /\ net_locked' = net_locked + 1
    /\ pmm_calls' = pmm_calls + 1
    /\ UNCHANGED <<memory_map, pmm_state, total_frames, table_readers, pmm_pc, pmm_arg, table0>>
    /\ UNCHANGED not_pmm_vars

\* PhysicalMemoryManager::next_frames, one step under the write guard.
next_frames(h, count, align_bits) ==
    /\ pmm_state = "ready"
    /\ pmm_pc[h] = "idle"
    /\ table_readers = {}
    /\ LET index == free_frames_index(table, count, align_bits) IN
       IF index = None
       THEN /\ pmm_ret' = Return("next_frames", <<count, align_bits>>, "NoneFree", 0)
            /\ UNCHANGED <<table, net_locked>>
       ELSE /\ table' = fill(table, unwrap(index), unwrap(index) + count, TRUE)
            /\ pmm_ret' = Return("next_frames", <<count, align_bits>>, "Ok", Address_from_index(unwrap(index)))
            /\ net_locked' = net_locked + count
    /\ pmm_calls' = pmm_calls + 1
    /\ UNCHANGED <<memory_map, pmm_state, total_frames, table_readers, pmm_pc, pmm_arg, table0>>
    /\ UNCHANGED not_pmm_vars

\* The first half of lock_frame: under a read guard, the bounds check and the
\* test that the frame is free.
lock_frame_check(h, address) ==
    /\ pmm_state = "ready"
    /\ pmm_pc[h] = "idle"
    /\ LET index == Address_index(address) IN
       IF index < total_frames
       THEN IF ~table[index]
            THEN /\ pmm_pc' = [pmm_pc EXCEPT ![h] = "lock_frame_set"]
                 /\ pmm_arg' = [pmm_arg EXCEPT ![h] = address]
                 /\ table_readers' = table_readers \cup {h}
                 /\ UNCHANGED pmm_ret
            ELSE /\ pmm_ret' = Return("lock_frame", <<address>>, "NotFree", address)
                 /\ UNCHANGED <<pmm_pc, pmm_arg, table_readers>>
       ELSE /\ pmm_ret' = Return("lock_frame", <<address>>, "OutOfBounds", address)
            /\ UNCHANGED <<pmm_pc, pmm_arg, table_readers>>
    /\ pmm_calls' = pmm_calls + 1
    /\ UNCHANGED <<memory_map, pmm_state, table, total_frames, table0, net_locked>>
    /\ UNCHANGED not_pmm_vars

\* The second half of lock_frame: the atomic store of the bit, Ok(()), and the
\* read guard is dropped.
lock_frame_set(h) ==
    /\ pmm_pc[h] = "lock_frame_set"
    /\ table' = set_bit(table, Address_index(pmm_arg[h]), TRUE)
    /\ pmm_ret' = Return("lock_frame", <<pmm_arg[h]>>, "Ok", 0)
    /\ pmm_pc' = [pmm_pc EXCEPT ![h] = "idle"]
    /\ table_readers' = table_readers \ {h}
    /\ net_locked' = net_locked + 1
    /\ UNCHANGED <<memory_map, pmm_state, total_frames, pmm_arg, pmm_calls, table0>>
    /\ UNCHANGED not_pmm_vars

\* The first half of free_frame: under a read guard, the bounds check and the
\* test that the frame is locked.
free_frame_check(h, address) ==
    /\ pmm_state = "ready"
    /\ pmm_pc[h] = "idle"
    /\ LET index == Address_index(address) IN
       IF index < total_frames
       THEN IF table[index]
            THEN /\ pmm_pc' = [pmm_pc EXCEPT ![h] = "free_frame_clear"]
                 /\ pmm_arg' = [pmm_arg EXCEPT ![h] = address]
                 /\ table_readers' = table_readers \cup {h}
                 /\ UNCHANGED pmm_ret
            ELSE /\ pmm_ret' = Return("free_frame", <<address>>, "NotLocked", address)
                 /\ UNCHANGED <<pmm_pc, pmm_arg, table_readers>>
       ELSE /\ pmm_ret' = Return("free_frame", <<address>>, "OutOfBounds", address)
            /\ UNCHANGED <<pmm_pc, pmm_arg, table_readers>>
    /\ pmm_calls' = pmm_calls + 1
    /\ UNCHANGED <<memory_map, pmm_state, table, total_frames, table0, net_locked>>
    /\ UNCHANGED not_pmm_vars

\* The second half of free_frame: the atomic store of the bit, Ok(()), and the
\* read guard is dropped.
free_frame_clear(h) ==
    /\ pmm_pc[h] = "free_frame_clear"
    /\ table' = set_bit(table, Address_index(pmm_arg[h]), FALSE)
    /\ pmm_ret' = Return("free_frame", <<pmm_arg[h]>>, "Ok", 0)
    /\ pmm_pc' = [pmm_pc EXCEPT ![h] = "idle"]
    /\ table_readers' = table_readers \ {h}
    /\ net_locked' = net_locked - 1
    /\ UNCHANGED <<memory_map, pmm_state, total_frames, pmm_arg, pmm_calls, table0>>
    /\ UNCHANGED not_pmm_vars

\* The manager before PhysicalMemoryManager::init has run.
PmmBoot(map) ==
    /\ memory_map = map
    /\ pmm_state = "boot"
    /\ table = <<>>
    /\ total_frames = 0
    /\ table_readers = {}
    /\ pmm_pc = [h \in Threads |-> "idle"]
    /\ pmm_arg = [h \in Threads |-> 0]
    /\ pmm_ret = Return("none", <<>>, "none", 0)
    /\ pmm_calls = 0
    /\ table0 = <<>>
    /\ net_locked = 0

\* The manager as PhysicalMemoryManager::init leaves it.
PmmReady(map) ==
    /\ memory_map = map
    /\ pmm_state = "ready"
    /\ table = init_table(map)
    /\ total_frames = total_frames_of(map)
    /\ table_readers = {}
    /\ pmm_pc = [h \in Threads |-> "idle"]
    /\ pmm_arg = [h \in Threads |-> 0]
    /\ pmm_ret = Return("none", <<>>, "none", 0)
    /\ pmm_calls = 0
    /\ table0 = init_table(map)
    /\ net_locked = 0

(***************************************************************************)
(* The higher-half direct map, mem/hhdm.rs, and the kernel allocator,      *)
(* mem/alloc.rs.                                                           *)
(***************************************************************************)
\* The number of set bits of a slice.
PopCount(bits) == Cardinality({i \in DOMAIN bits : bits[i]})

\* The depth of the root table (4-level paging) and of a leaf table.
TableDepth_max == 4
TableDepth_min == 1

\* Width of an address in bits: the page offset and one table index per level.
\* This is the 64 bits of usize, and the 48 bits of a virtual address, scaled
\* down with the tables.
AddressBits == PAGE_SHIFT + TableDepth_max * TableIndexBits

\* usize::MAX + 1
USIZE_MODULUS == 2 ^ AddressBits

\* The offset the bootloader reports: the start of the higher half.
HHDM_OFFSET == 2 ^ (AddressBits - 1)

\* usize::checked_add and usize::checked_sub
checked_add(a, b) == IF a + b < USIZE_MODULUS THEN Some(a + b) ELSE None
checked_sub(a, b) == IF a >= b THEN Some(a - b) ELSE None

\* NonZero::new
NonZero_new(value) == IF value # 0 THEN Some(value) ELSE None

\* Option::and_then(NonZero::new)
and_then_NonZero_new(option) == IF option = None THEN None ELSE NonZero_new(unwrap(option))

\* HigherHalfDirectMap::offset and negative_offset before the expect(): None
\* is the panic.
HigherHalfDirectMap_offset(base, address) == and_then_NonZero_new(checked_add(base, address))
HigherHalfDirectMap_negative_offset(base, address) == and_then_NonZero_new(checked_sub(address, base))

\* libsys::align_down: value rounded down to a multiple of 2^shift.
align_down(value, shift) == value - (value % (2 ^ shift))

\* One whole call of next_frame, next_frames and free_frame on a table no
\* other thread touches: the Result and the table it leaves.
PhysicalMemoryManager_next_frame(bits) ==
    LET index == first_zero(bits) IN
    IF index = None
    THEN [result |-> "NoneFree", value |-> 0, table |-> bits]
    ELSE [result |-> "Ok", value |-> Address_from_index(unwrap(index)),
          table |-> set_bit(bits, unwrap(index), TRUE)]

PhysicalMemoryManager_next_frames(bits, count, align_bits) ==
    LET index == free_frames_index(bits, count, align_bits) IN
    IF index = None
    THEN [result |-> "NoneFree", value |-> 0, table |-> bits]
    ELSE [result |-> "Ok", value |-> Address_from_index(unwrap(index)),
          table |-> fill(bits, unwrap(index), unwrap(index) + count, TRUE)]

PhysicalMemoryManager_free_frame(bits, frames, address) ==
    IF Address_index(address) < frames
    THEN IF bits[Address_index(address)]
         THEN [result |-> "Ok", value |-> 0,
               table |-> set_bit(bits, Address_index(address), FALSE)]
         ELSE [result |-> "NotLocked", value |-> address, table |-> bits]
    ELSE [result |-> "OutOfBounds", value |-> address, table |-> bits]

\* (frames_start..frames_end).try_for_each(free_frame): frees in order and
\* stops at the first error.
RECURSIVE try_for_each_free_frame(_, _, _, _)
try_for_each_free_frame(bits, frames, index, frames_end) ==
    IF index >= frames_end
    THEN [result |-> "Ok", value |-> 0, table |-> bits]
    ELSE LET freed == PhysicalMemoryManager_free_frame(bits, frames, Address_from_index(index))
         IN IF freed.result = "Ok"
            THEN try_for_each_free_frame(freed.table, frames, index + 1, frames_end)
            ELSE freed

\* KernelAllocator::allocate
KernelAllocator_allocate(size, align) ==
    /\ pmm_state = "ready"
    /\ table_readers = {}
    /\ alloc_pc = "idle"
    /\ alloc_layout' = <<size, align>>
    /\ LET frame_count == align_up_div(size, PAGE_SHIFT)
           frame == IF frame_count = 1
                    THEN PhysicalMemoryManager_next_frame(table)
                    ELSE PhysicalMemoryManager_next_frames(table, frame_count, None)
       IN IF align > PAGE_SIZE \/ frame_count = 0
          THEN /\ alloc_pc' = "panicked"
               /\ UNCHANGED <<alloc_ptr, alloc_before, table, net_locked, pmm_ret>>
          ELSE /\ table' = frame.table
               /\ pmm_ret' = Return(IF frame_count = 1 THEN "next_frame" ELSE "next_frames",
                                    IF frame_count = 1 THEN <<>> ELSE <<frame_count, None>>,
                                    frame.result, frame.value)
               /\ IF frame.result # "Ok"
                  THEN /\ alloc_pc' = "idle"
                       /\ UNCHANGED <<alloc_ptr, alloc_before, net_locked>>
                  ELSE /\ net_locked' = net_locked + frame_count
                       /\ alloc_before' = table
                       /\ alloc_ptr' = HigherHalfDirectMap_offset(hhdm_base, frame.value)
                       /\ alloc_pc' = IF HigherHalfDirectMap_offset(hhdm_base, frame.value) = None
                                      THEN "panicked" ELSE "allocated"
    /\ pmm_calls' = pmm_calls + 1
    /\ UNCHANGED <<memory_map, pmm_state, total_frames, table_readers, pmm_pc, pmm_arg, table0>>
    /\ UNCHANGED <<hhdm_base, hhdm_call>>
    /\ UNCHANGED <<sched_vars, paging_vars, gate_vars, boot_vars>>

\* KernelAllocator::deallocate of the live allocation with the Layout it was
\* allocated with.
KernelAllocator_deallocate ==
    /\ table_readers = {}
    /\ alloc_pc = "allocated"
    /\ LET size == alloc_layout[1]
           align == alloc_layout[2]
           physical_offset == HigherHalfDirectMap_negative_offset(hhdm_base, unwrap(alloc_ptr))
           frame_address == align_down(unwrap(physical_offset), PAGE_SHIFT)
           frame_count == align_up_div(size, PAGE_SHIFT)
           freed == IF size <= PAGE_SIZE
                    THEN PhysicalMemoryManager_free_frame(table, total_frames, frame_address)
                    ELSE try_for_each_free_frame(table, total_frames, Address_index(frame_address),
                                                 Address_index(frame_address) + frame_count)
       IN IF align > PAGE_SIZE \/ physical_offset = None
          THEN /\ alloc_pc' = "panicked"
               /\ UNCHANGED <<alloc_ptr, table, net_locked, pmm_ret>>
          ELSE /\ table' = freed.table
               /\ net_locked' = net_locked - PopCount(table) + PopCount(freed.table)
               /\ pmm_ret' = Return("free_frame", <<frame_address>>, freed.result, freed.value)
               /\ alloc_ptr' = None
               /\ alloc_pc' = IF size > PAGE_SIZE /\ freed.result # "Ok"
                              THEN "panicked" ELSE "idle"
    /\ UNCHANGED <<memory_map, pmm_state, total_frames, table_readers, pmm_pc, pmm_arg,
                   pmm_calls, table0>>
    /\ UNCHANGED <<hhdm_base, hhdm_call, alloc_layout, alloc_before>>
    /\ UNCHANGED <<sched_vars, paging_vars, gate_vars, boot_vars>>

\* Address::new_truncate::<Virtual> and ::<Page>, Address::new::<Physical>
\* and ::<Frame>: a page or frame address is a multiple of the page size.
Address_new_truncate_virtual(value) == value
Address_new_truncate_page(value) == align_down(value, PAGE_SHIFT)
Address_new_physical(value) == Some(value)
Address_new_frame(value) == IF value % PAGE_SIZE = 0 THEN Some(value) ELSE None

\* usize + usize and usize - usize: past the range of usize the build either
\* panics (overflow checks) or wraps.
unchecked_add(a, b) ==
    IF a + b < USIZE_MODULUS THEN {Some(a + b)} ELSE {None, Some((a + b) % USIZE_MODULUS)}
unchecked_sub(a, b) ==
    IF a >= b THEN {Some(a - b)} ELSE {None, Some(a - b + USIZE_MODULUS)}

\* The outcomes of the conversions of HigherHalfDirectMap: Some(address), or
\* None for a panic.
HigherHalfDirectMap_outcomes(base, op, address) ==
    CASE op = "offset" -> {HigherHalfDirectMap_offset(base, address)}
      [] op = "negative_offset" -> {HigherHalfDirectMap_negative_offset(base, address)}
      [] op = "physical_to_virtual" ->
             {IF sum = None THEN None ELSE Some(Address_new_truncate_virtual(unwrap(sum))) :
                  sum \in unchecked_add(base, address)}
      [] op = "virtual_to_physical" ->
             {IF difference = None THEN None ELSE Address_new_physical(unwrap(difference)) :
                  difference \in unchecked_sub(address, base)}
      [] op = "frame_to_page" ->
             {IF sum = None THEN None ELSE Some(Address_new_truncate_page(unwrap(sum))) :
                  sum \in unchecked_add(base, address)}
      [] op = "page_to_frame" ->
             {IF difference = None THEN None ELSE Address_new_frame(unwrap(difference)) :
                  difference \in unchecked_sub(address, base)}

HhdmOps ==
    {"offset", "negative_offset", "physical_to_virtual", "virtual_to_physical",
     "frame_to_page", "page_to_frame"}

\* One conversion through the direct map.
HigherHalfDirectMap_convert(op, address) ==
    /\ \E outcome \in HigherHalfDirectMap_outcomes(hhdm_base, op, address) :
           hhdm_call' = [op |-> op, address |-> address, result |-> outcome]
    /\ UNCHANGED <<hhdm_base, alloc_pc, alloc_ptr, alloc_layout, alloc_before>>
    /\ UNCHANGED <<sched_vars, pmm_vars, paging_vars, gate_vars, boot_vars>>

\* The allocator with the direct map initialised and no allocation live.
AllocInit ==
    /\ hhdm_base = HHDM_OFFSET
    /\ hhdm_call = [op |-> "none", address |-> 0, result |-> None]
    /\ alloc_pc = "idle"
    /\ alloc_ptr = None
    /\ alloc_layout = <<PAGE_SIZE, 1>>
    /\ alloc_before = <<>>

(***************************************************************************)
(* Page tables, mem/paging, and the Mapper, mem/mapper.rs.                 *)
(***************************************************************************)
\* libsys::table_index_size()
TABLE_INDEX_SIZE == 2 ^ TableIndexBits

\* TableDepth::giga() and TableDepth::mega()
TableDepth_giga == 3
TableDepth_mega == 2

\* The bytes a page mapped at a depth covers, as a shift.
depth_shift(depth) == PAGE_SHIFT + (depth - 1) * TableIndexBits

\* The index of a page's entry in the table of a depth.
table_index(page, depth) == (page \div (2 ^ depth_shift(depth))) % TABLE_INDEX_SIZE

\* TableEntryFlags and its groups.
TableEntryFlags ==
    {"PRESENT", "WRITE", "USER", "WRITE_THROUGH", "CACHE_DISABLE", "ACCESSED", "DIRTY",
     "HUGE", "GLOBAL", "NO_EXECUTE"}
TableEntryFlags_RO == {"PRESENT", "NO_EXECUTE"}
TableEntryFlags_RW == {"PRESENT", "WRITE", "NO_EXECUTE"}
TableEntryFlags_RX == {"PRESENT"}

\* PageTableEntry::new, ::empty, ::is_present, ::get_frame, ::get_attributes
PageTableEntry_new(frame, attributes) == [frame |-> frame, attributes |-> attributes]
PageTableEntry_empty == [frame |-> 0, attributes |-> {}]
is_present(entry) == "PRESENT" \in entry.attributes
is_huge(entry) == "HUGE" \in entry.attributes
get_frame(entry) == entry.frame
get_attributes(entry) == entry.attributes

\* core::ptr::write_bytes(frame, 0, page_size) and [PageTableEntry::empty(); size]
zeroed_table == [index \in 0..(TABLE_INDEX_SIZE - 1) |-> PageTableEntry_empty]

\* The entry a table holds for a page: the table is the array in a frame, the
\* HHDM alias of which the code dereferences.
entry_at(memory, table_frame, page, depth) ==
    memory[Address_index(table_frame)][table_index(page, depth)]

\* PageTable::with_entry and with_entry_mut: the walk from a table of a depth
\* to the entry of the page at the target depth (the leaf depth for None). It
\* ends at a huge entry above the leaf depth when no depth is given. The
\* result names the table frame and index of the entry found.
RECURSIVE with_entry(_, _, _, _, _)
with_entry(memory, table_frame, depth, page, to_depth) ==
    LET entry == entry_at(memory, table_frame, page, depth)
        found == [result |-> "Ok", table_frame |-> table_frame,
                  index |-> table_index(page, depth), depth |-> depth]
        missing == [result |-> "NotMapped", table_frame |-> table_frame,
                    index |-> table_index(page, depth), depth |-> depth]
    IN IF Address_index(table_frame) \notin DOMAIN memory THEN missing
       ELSE IF ~is_present(entry) THEN missing
       ELSE IF depth = (IF to_depth = None THEN TableDepth_min ELSE unwrap(to_depth)) THEN found
       ELSE IF is_huge(entry) THEN (IF to_depth = None THEN found ELSE missing)
       ELSE with_entry(memory, get_frame(entry), depth - 1, page, to_depth)

\* The entry a walk found.
found_entry(memory, walk) == memory[Address_index(walk.table_frame)][walk.index]

\* memory with one entry replaced
set_entry(memory, table_frame, index, entry) ==
    [memory EXCEPT ![Address_index(table_frame)][index] = entry]

\* PageTable::with_entry_create: the walk of map. A missing table on the way
\* is a frame taken from the manager, zeroed and linked with PRESENT, USER
\* and WRITE; a present entry at the target is AlreadyMapped, and a huge
\* entry on the way is HugeMisaligned. The tables created stay when a later
\* step fails.
RECURSIVE with_entry_create(_, _, _, _, _, _)
with_entry_create(memory, bits, table_frame, depth, page, to_depth) ==
    LET entry == entry_at(memory, table_frame, page, depth)
        index == table_index(page, depth)
        failed(error) == [result |-> error, table_frame |-> table_frame, index |-> index,
                          depth |-> depth, memory |-> memory, table |-> bits]
        next == PhysicalMemoryManager_next_frame(bits)
    IN IF depth = to_depth
       THEN IF is_present(entry) THEN failed("AlreadyMapped")
            ELSE [failed("Ok") EXCEPT !.result = "Ok"]
       ELSE IF is_present(entry)
       THEN IF is_huge(entry) THEN failed("HugeMisaligned")
            ELSE with_entry_create(memory, bits, get_frame(entry), depth - 1, page, to_depth)
       ELSE IF next.result # "Ok" THEN failed("AllocationFailure")
       ELSE with_entry_create(
                set_entry([memory EXCEPT ![Address_index(next.value)] = zeroed_table],
                          table_frame, index,
                          PageTableEntry_new(next.value, {"PRESENT", "USER", "WRITE"})),
                next.table, next.value, depth - 1, page, to_depth)

\* PhysicalMemoryManager::lock_frame with no other thread inside the manager.
PhysicalMemoryManager_lock_frame(bits, frames, address) ==
    IF Address_index(address) < frames
    THEN IF bits[Address_index(address)]
         THEN [result |-> "NotFree", value |-> address, table |-> bits]
         ELSE [result |-> "Ok", value |-> 0,
               table |-> set_bit(bits, Address_index(address), TRUE)]
    ELSE [result |-> "OutOfBounds", value |-> address, table |-> bits]

\* What a call on a Mapper leaves: its result, the page tables and the frame
\* table.
Outcome(result, memory, bits) == [result |-> result, memory |-> memory, table |-> bits]

\* Mapper::map. checked is whether the build keeps debug_assert!.
Mapper_map(memory, bits, frames, root_frame, page, depth, frame, lock_frame, attributes, checked) ==
    LET locked == IF lock_frame
                  THEN PhysicalMemoryManager_lock_frame(bits, frames, frame)
                  ELSE [result |-> "Ok", value |-> 0, table |-> bits]
        walk == with_entry_create(memory, locked.table, root_frame, TableDepth_max, page, depth)
    IN IF locked.result # "Ok" THEN Outcome(locked.result, memory, bits)
       ELSE IF walk.result # "Ok" THEN Outcome(walk.result, walk.memory, walk.table)
       ELSE IF depth > TableDepth_min /\ "HUGE" \notin attributes /\ checked
       THEN Outcome("panic", walk.memory, walk.table)
       ELSE Outcome("Ok",
                    set_entry(walk.memory, walk.table_frame, walk.index,
                              PageTableEntry_new(frame, attributes)),
                    walk.table)

\* Mapper::unmap that leaves PRESENT set in the entry.
Mapper_unmap_keeps_present(memory, bits, frames, root_frame, page, to_depth, free_frame) ==
    LET walk == with_entry(memory, root_frame, TableDepth_max, page, to_depth)
        entry == found_entry(memory, walk)
        cleared == set_entry(memory, walk.table_frame, walk.index,
                             PageTableEntry_new(0, get_attributes(entry)))
        freed == PhysicalMemoryManager_free_frame(bits, frames, get_frame(entry))
    IN IF walk.result # "Ok" THEN Outcome("NotMapped", memory, bits)
       ELSE IF free_frame THEN Outcome(freed.result, cleared, freed.table)
       ELSE Outcome("Ok", cleared, bits)

\* Mapper::unmap
Mapper_unmap(memory, bits, frames, root_frame, page, to_depth, free_frame) ==
    LET walk == with_entry(memory, root_frame, TableDepth_max, page, to_depth)
        entry == found_entry(memory, walk)
        cleared == set_entry(memory, walk.table_frame, walk.index,
                             PageTableEntry_new(0, get_attributes(entry) \ {"PRESENT"}))
        freed == PhysicalMemoryManager_free_frame(bits, frames, get_frame(entry))
    IN IF walk.result # "Ok" THEN Outcome("NotMapped", memory, bits)
       ELSE IF free_frame THEN Outcome(freed.result, cleared, freed.table)
       ELSE Outcome("Ok", cleared, bits)

\* Mapper::auto_map
Mapper_auto_map(memory, bits, frames, root_frame, page, flags) ==
    LET next == PhysicalMemoryManager_next_frame(bits) IN
    IF next.result # "Ok" THEN Outcome(next.result, memory, bits)
    ELSE Mapper_map(memory, next.table, frames, root_frame, page, TableDepth_min,
                    next.value, FALSE, flags, FALSE)

\* Mapper::is_mapped, ::get_mapped_to, ::get_page_attributes
Mapper_is_mapped(memory, root_frame, page, depth) ==
    with_entry(memory, root_frame, TableDepth_max, page, depth).result = "Ok"
Mapper_get_mapped_to(memory, root_frame, page) ==
    LET walk == with_entry(memory, root_frame, TableDepth_max, page, None) IN
    IF walk.result = "Ok" THEN Some(get_frame(found_entry(memory, walk))) ELSE None
Mapper_get_page_attributes(memory, root_frame, page) ==
    LET walk == with_entry(memory, root_frame, TableDepth_max, page, None) IN
    IF walk.result = "Ok" THEN Some(get_attributes(found_entry(memory, walk))) ELSE None

\* FlagsModify and PageTableEntry::set_attributes
FlagsModify == {"Set", "Insert", "Remove", "Toggle"}
set_attributes(entry, attributes, mode) ==
    [entry EXCEPT !.attributes =
        CASE mode = "Set" -> attributes
          [] mode = "Insert" -> @ \cup attributes
          [] mode = "Remove" -> @ \ attributes
          [] mode = "Toggle" -> (@ \ attributes) \cup (attributes \ @)]

\* Mapper::set_page_attributes
Mapper_set_page_attributes(memory, bits, root_frame, page, depth, attributes, mode) ==
    LET walk == with_entry(memory, root_frame, TableDepth_max, page, depth) IN
    IF walk.result # "Ok" THEN Outcome("NotMapped", memory, bits)
    ELSE Outcome("Ok",
                 set_entry(memory, walk.table_frame, walk.index,
                           set_attributes(found_entry(memory, walk), attributes, mode)),
                 bits)

\* Mapper::new: a zeroed root table in a frame of the manager.
Mapper_new(memory, bits) ==
    LET next == PhysicalMemoryManager_next_frame(bits) IN
    IF next.result # "Ok"
    THEN [result |-> "panic", root_frame |-> 0, memory |-> memory, table |-> bits]
    ELSE [result |-> "Ok", root_frame |-> next.value,
          memory |-> [memory EXCEPT ![Address_index(next.value)] = zeroed_table],
          table |-> next.table]

\* A call on a Mapper or AddressSpace, as the history keeps it.
MapperCall(op, page, count, depth, frame, attributes, result) ==
    [op |-> op, page |-> page, count |-> count, depth |-> depth, frame |-> frame,
     attributes |-> attributes, result |-> result]

\* What every call on a Mapper or AddressSpace leaves behind: the outcome in
\* memory and in the frame table, and the history of the call.
mapper_returns(call, outcome) ==
    /\ frame_memory' = outcome.memory
    /\ table' = outcome.table
    /\ mapper_call' = call
    /\ mapper_calls' = mapper_calls + 1
    /\ memory_before' = frame_memory
    /\ table_before' = table
    /\ UNCHANGED <<memory_map, pmm_state, total_frames, table_readers, pmm_pc, pmm_arg,
                   pmm_ret, pmm_calls, table0, net_locked>>
    /\ UNCHANGED <<sched_vars, alloc_vars, gate_vars, boot_vars, debug_assertions>>

\* with_kernel_mapper(|kmapper| kmapper.map(page, depth, frame, lock_frame, attributes))
KernelMapper_map(page, depth, frame, lock_frame, attributes) ==
    LET outcome == Mapper_map(frame_memory, table, total_frames, kernel_root, page, depth,
                              frame, lock_frame, attributes, debug_assertions)
    IN /\ mapper_returns(MapperCall("map", page, 1, Some(depth), frame, attributes,
                                    outcome.result), outcome)
       /\ UNCHANGED <<kernel_root, user_root>>

\* with_kernel_mapper(|kmapper| kmapper.unmap(page, to_depth, free_frame))
KernelMapper_unmap(page, to_depth, free_frame) ==
    LET outcome == Mapper_unmap(frame_memory, table, total_frames, kernel_root, page,
                                to_depth, free_frame)
    IN /\ mapper_returns(MapperCall("unmap", page, 1, to_depth, 0, {}, outcome.result), outcome)
       /\ UNCHANGED <<kernel_root, user_root>>

(***************************************************************************)
(* The AddressSpace of a user task, task/address_space.rs.                 *)
(***************************************************************************)
MmapPermissions == {"ReadExecute", "ReadWrite", "ReadOnly"}

\* impl From<MmapPermissions> for TableEntryFlags
TableEntryFlags_from(permissions) ==
    CASE permissions = "ReadExecute" -> TableEntryFlags_RX
      [] permissions = "ReadWrite" -> TableEntryFlags_RW
      [] permissions = "ReadOnly" -> TableEntryFlags_RO

\* Address::<Page>::from_index: None past the last page of the address space.
Page_from_index(index) ==
    IF index * PAGE_SIZE < USIZE_MODULUS THEN Some(index * PAGE_SIZE) ELSE None

\* mem::copy_kernel_page_table that fills the new table and copies nothing.
copy_kernel_page_table_fill_only(memory, bits, root_frame) ==
    LET next == PhysicalMemoryManager_next_frame(bits)
        filled == [memory EXCEPT ![Address_index(next.value)] = zeroed_table]
    IN IF next.result # "Ok"
       THEN [result |-> next.result, root_frame |-> 0, memory |-> memory, table |-> bits]
       ELSE [result |-> "Ok", root_frame |-> next.value, memory |-> filled,
             table |-> next.table]

\* mem::copy_kernel_page_table: a frame of the manager, filled with empty
\* entries and then with a copy of every entry of the kernel's root table.
copy_kernel_page_table(memory, bits, root_frame) ==
    LET next == PhysicalMemoryManager_next_frame(bits)
        filled == [memory EXCEPT ![Address_index(next.value)] = zeroed_table]
    IN IF next.result # "Ok"
       THEN [result |-> next.result, root_frame |-> 0, memory |-> memory, table |-> bits]
       ELSE [result |-> "Ok", root_frame |-> next.value,
             memory |-> [filled EXCEPT ![Address_index(next.value)] =
                                           filled[Address_index(root_frame)]],
             table |-> next.table]

\* AddressSpace::new_userspace: the copy, unwrapped.
AddressSpace_new_userspace ==
    LET copied == copy_kernel_page_table(frame_memory, table, kernel_root)
        outcome == Outcome(IF copied.result = "Ok" THEN "Ok" ELSE "panic",
                           copied.memory, copied.table)
    IN /\ user_root = None
       /\ mapper_returns(MapperCall("new_userspace", 0, 0, None, copied.root_frame, {},
                                    outcome.result), outcome)
       /\ user_root' = IF copied.result = "Ok" THEN Some(copied.root_frame) ELSE None
       /\ UNCHANGED kernel_root

\* AddressSpace::invoke_mapper: auto_map of the pages of the range in order,
\* stopping at the first error; what the earlier pages received stays.
RECURSIVE try_for_each_auto_map(_, _, _, _, _, _, _, _)
try_for_each_auto_map(memory, bits, frames, root_frame, address, index, page_count, flags) ==
    IF index >= page_count
    THEN Outcome("Ok", memory, bits)
    ELSE LET mapped == Mapper_auto_map(memory, bits, frames, root_frame,
                                       Address_new_truncate_page(address + index * PAGE_SIZE),
                                       flags)
         IN IF mapped.result = "Ok"
            THEN try_for_each_auto_map(mapped.memory, mapped.table, frames, root_frame,
                                       address, index + 1, page_count, flags)
            ELSE mapped

\* AddressSpace::invoke_mapper: the pointer it returns is NonNull::new of the
\* address, unwrapped.
invoke_mapper(memory, bits, frames, root_frame, address, page_count, flags) ==
    LET mapped == try_for_each_auto_map(memory, bits, frames, root_frame, address, 0,
                                        page_count, flags)
    IN IF mapped.result = "Ok" /\ address = 0
       THEN Outcome("panic", mapped.memory, mapped.table)
       ELSE mapped

\* AddressSpace::mmap with Some(address), that is AddressSpace::map_exact
AddressSpace_mmap(address, page_count, permissions) ==
    LET flags == {"PRESENT", "USER"} \cup TableEntryFlags_from(permissions)
        outcome == invoke_mapper(frame_memory, table, total_frames, unwrap(user_root),
                                 address, page_count, flags)
    IN /\ user_root # None
       /\ mapper_returns(MapperCall("mmap", address, page_count, None, 0, flags,
                                    outcome.result), outcome)
       /\ UNCHANGED <<kernel_root, user_root>>

\* The loop of AddressSpace::set_flags: set_page_attributes of the pages of the
\* range in order, stopping at the first error.
RECURSIVE set_flags_from(_, _, _, _, _, _, _)
set_flags_from(memory, bits, root_frame, address, index_offset, page_count, flags) ==
    LET offset_address == Page_from_index(Address_index(address) + index_offset)
        changed == Mapper_set_page_attributes(memory, bits, root_frame,
                                              unwrap(offset_address), None, flags, "Set")
    IN IF index_offset >= page_count THEN Outcome("Ok", memory, bits)
       ELSE IF offset_address = None THEN Outcome("AddressRangeOverrun", memory, bits)
       ELSE IF changed.result # "Ok" THEN changed
       ELSE set_flags_from(changed.memory, bits, root_frame, address, index_offset + 1,
                           page_count, flags)

\* AddressSpace::set_flags
AddressSpace_set_flags(address, page_count, flags) ==
    LET outcome == set_flags_from(frame_memory, table, unwrap(user_root), address, 0,
                                  page_count, flags)
    IN /\ user_root # None
       /\ mapper_returns(MapperCall("set_flags", address, page_count, None, 0, flags,
                                    outcome.result), outcome)
       /\ UNCHANGED <<kernel_root, user_root>>

(***************************************************************************)
(* The Klog syscalls, interrupts/syscall.rs.                               *)
(***************************************************************************)
KlogLevels == {"Info", "Error", "Debug", "Trace"}

\* What Task::demand_map answers for one address.
DemandMapResults == {"Ok", "AlreadyMapped", "NotDemandMapped"}

\* (str_start..str_end).step_by(page_size()): str_start and every page_size-th
\* address after it that is below str_end.
step_by_addresses(str_start, str_end) ==
    [index \in 1..align_up_div(str_end - str_start, PAGE_SHIFT) |->
        str_start + (index - 1) * PAGE_SIZE]

\* The first demand_map call that answers neither Ok nor AlreadyMapped.
first_failure(outcomes) ==
    LET failures == {index \in DOMAIN outcomes : outcomes[index] \notin {"Ok", "AlreadyMapped"}}
    IN IF failures = {} THEN None
       ELSE Some(CHOOSE index \in failures : \A other \in failures : index <= other)

KlogCall(level, ptr, len, demand_mapped, read, result) ==
    [level |-> level, ptr |-> ptr, len |-> len, demand_mapped |-> demand_mapped,
     read |-> read, result |-> result]

\* process_klog on hardware thread h. outcomes are the answers of demand_map,
\* valid is whether the buffer holds UTF-8.
process_klog(h, level, str_ptr_arg, str_len, outcomes, valid) ==
    LET str_start == str_ptr_arg
        str_end == str_start + str_len
        addresses == [index \in DOMAIN step_by_addresses(str_start, str_end) |->
                         Address_new_truncate_virtual(
                             step_by_addresses(str_start, str_end)[index])]
        failure == first_failure(outcomes)
    IN /\ pc[h] = "run"
       /\ DOMAIN outcomes = DOMAIN addresses
       /\ klog_call' =
            IF task[h] = None
            THEN KlogCall(level, str_ptr_arg, str_len, <<>>, FALSE, "NoActiveTask")
            ELSE IF failure # None
            THEN KlogCall(level, str_ptr_arg, str_len, SubSeq(addresses, 1, unwrap(failure)),
                          FALSE, "UnmappedMemory")
            ELSE KlogCall(level, str_ptr_arg, str_len, addresses, TRUE,
                          IF valid THEN "Ok" ELSE "BadUtf8")
       /\ UNCHANGED <<idt, delivery>>
       /\ UNCHANGED <<sched_vars, pmm_vars, alloc_vars, paging_vars, boot_vars>>

(***************************************************************************)
(* The InterruptDescriptorTable, arch/x86_64/structures/idt.               *)
(***************************************************************************)
\* Entry::missing: Options::minimal, no handler.
Entry_missing ==
    [present |-> FALSE, privilege_level |-> 0, stack_index |-> None,
     code_selector |-> "NULL", stub |-> "none", irq_number |-> 0]

\* Entry::new that leaves the present bit clear.
Entry_new_not_present(stub, irq_number) ==
    [Entry_missing EXCEPT !.stub = stub, !.irq_number = irq_number,
                          !.code_selector = KERNEL_CS]

\* Entry::new: the handler address, the kernel code selector, present. The
\* address is the stub and the number the stub hands to its handler.
Entry_new(stub, irq_number) ==
    [Entry_missing EXCEPT !.stub = stub, !.irq_number = irq_number,
                          !.code_selector = KERNEL_CS, !.present = TRUE]

\* Entry::new_with_stack and Entry::new_with_privilege
Entry_new_with_stack(stub, irq_number, interrupt_stack_table_index) ==
    [Entry_new(stub, irq_number) EXCEPT !.stack_index = Some(interrupt_stack_table_index)]
Entry_new_with_privilege(stub, irq_number, privilege_level) ==
    [Entry_new(stub, irq_number) EXCEPT !.privilege_level = privilege_level]

Ring0 == 0
Ring3 == 3

\* The fields of the table before `interrupts`, vectors 0 to 31, as init fills
\* them.
exception_entries ==
    <<Entry_new("__de_stub", 0),
      Entry_new_with_stack("__db_stub", 0, "Debug"),
      Entry_new_with_stack("__nm_stub", 0, "NonMaskableInterrupt"),
      Entry_new("__bp_stub", 0),
      Entry_new("__of_stub", 0),
      Entry_new("__br_stub", 0),
      Entry_new("__ud_stub", 0),
      Entry_new("__na_stub", 0),
      Entry_new_with_stack("__df_stub", 0, "DoubleFault"),
      Entry_missing,
      Entry_new("__ts_stub", 0),
      Entry_new("__np_stub", 0),
      Entry_new("__ss_stub", 0),
      Entry_new("__gp_stub", 0),
      Entry_new("__pf_stub", 0),
      Entry_missing,
      Entry_new("__mf_stub", 0),
      Entry_new("__ac_stub", 0),
      Entry_new_with_stack("__mc_stub", 0, "MachineCheck"),
      Entry_new("__xm_stub", 0),
      Entry_new("__ve_stub", 0),
      Entry_missing,
      Entry_missing, Entry_missing, Entry_missing, Entry_missing, Entry_missing, Entry_missing,
      Entry_missing,
      Entry_missing,
      Entry_missing,
      Entry_missing>>

\* The numbers of the __irq stubs in the order init writes them into
\* `interrupts` after the first element: 32 to 37, 39, 38, 40 to 127 and 129
\* to 255.
irq_stub_order ==
    [index \in 1..6 |-> 31 + index] \o <<39, 38>> \o [index \in 1..88 |-> 39 + index]
        \o [index \in 1..127 |-> 128 + index]

\* The field `interrupts`: the stub of 128 with Ring3 first, then the others.
interrupts ==
    <<Entry_new_with_privilege("__irq_stub", 128, Ring3)>>
        \o [index \in DOMAIN irq_stub_order |-> Entry_new("__irq_stub", irq_stub_order[index])]

\* The table by vector: the fields in their order in the struct.
InterruptDescriptorTable ==
    [vector \in 0..255 |-> (exception_entries \o interrupts)[vector + 1]]

\* InterruptDescriptorTable::init and load_static
InterruptDescriptorTable_init ==
    /\ idt = <<>>
    /\ idt' = InterruptDescriptorTable
    /\ UNCHANGED <<klog_call, delivery>>
    /\ UNCHANGED <<sched_vars, pmm_vars, alloc_vars, paging_vars, boot_vars>>

\* How an interrupt reaches the table.
InterruptSources == {"hardware", "int_ring0", "int_ring3"}

\* The processor takes an interrupt through the loaded table: an entry that is
\* not present gives #NP, an INT n from a privilege level above the entry's
\* gives #GP, and otherwise the entry's stub runs.
Deliver(vector, source) ==
    /\ idt # <<>>
    /\ delivery' =
         [vector |-> vector, source |-> source,
          outcome |-> IF source = "int_ring3" /\ idt[vector].privilege_level < Ring3
                      THEN "#GP"
                      ELSE IF ~idt[vector].present THEN "#NP"
                      ELSE "stub",
          stub |-> idt[vector].stub, irq_number |-> idt[vector].irq_number,
          handled |-> <<>>]
    /\ UNCHANGED <<klog_call, idt>>
    /\ UNCHANGED <<sched_vars, pmm_vars, alloc_vars, paging_vars, boot_vars>>

(***************************************************************************)
(* Inter-processor interrupts: arch/x86_64/devices/x2apic.                 *)
(***************************************************************************)
\* InterruptDeliveryMode and its encoding in bits 8..11 of the command.
InterruptDeliveryModes ==
    {"Fixed", "LowPriority", "SystemManagement", "NonMaskable", "Init", "StartUp", "External"}

u32_from_InterruptDeliveryMode(value) ==
    CASE value = "Fixed" -> 0
      [] value = "LowPriority" -> 1
      [] value = "SystemManagement" -> 2
      [] value = "NonMaskable" -> 4
      [] value = "Init" -> 5
      [] value = "StartUp" -> 6
      [] value = "External" -> 7

InterruptDestinationModes == {"Physical", "Logical"}
bool_from_InterruptDestinationMode(value) == value = "Logical"

InterruptTriggerModes == {"Edge", "Level"}
bool_from_InterruptTriggerMode(value) == value = "Level"

InterruptAssertModes == {"Deassert", "Assert"}
bool_from_InterruptAssertMode(value) == value = "Assert"

\* InterruptDestination: a processor id or one of the three shorthands.
Processor(id) == [kind |-> "Processor", id |-> id]
OnlySelf == [kind |-> "OnlySelf", id |-> 0]
AllIncludingSelf == [kind |-> "AllIncludingSelf", id |-> 0]
AllExclusingSelf == [kind |-> "AllExclusingSelf", id |-> 0]

\* BitField::set_bits(low..high, value), set_bit(bit, value) and
\* get_bits(low..high) on a u32.
get_bits(word, low, high) == (word \div 2^low) % 2^(high - low)
set_bits(word, low, high, value) == word - get_bits(word, low, high) * 2^low + value * 2^low
u32_set_bit(word, bit, value) == set_bits(word, bit, bit + 1, IF value THEN 1 ELSE 0)

\* The three assertions at the head of InterruptCommand::new.
InterruptCommand_new_asserts(vector, delivery_mode, trigger_mode, assert_mode) ==
    /\ assert_mode # "Deassert" \/ delivery_mode = "Init"
    /\ assert_mode # "Deassert" \/ trigger_mode = "Level"
    /\ vector = None \/ delivery_mode \notin {"SystemManagement", "Init"}

\* InterruptCommand::new without the assertions on the destination.
InterruptCommand_new_any_destination(destination, assert_mode) == TRUE

\* The assertion in each arm of the match on the destination but
\* AllIncludingSelf.
InterruptCommand_new_destination_assert(destination, assert_mode) ==
    destination.kind = "AllIncludingSelf" \/ assert_mode # "Deassert"

\* The low word InterruptCommand::new builds.
InterruptCommand_low(vector, destination, delivery_mode, destination_mode, trigger_mode, assert_mode) ==
    LET low1 == IF vector # None THEN set_bits(0, 0, 8, unwrap(vector)) ELSE 0
        low2 == set_bits(low1, 8, 11, u32_from_InterruptDeliveryMode(delivery_mode))
        low3 == u32_set_bit(low2, 11, bool_from_InterruptDestinationMode(destination_mode))
        low4 == u32_set_bit(low3, 14, bool_from_InterruptAssertMode(assert_mode))
        low5 == u32_set_bit(low4, 15, bool_from_InterruptTriggerMode(trigger_mode))
    IN  CASE destination.kind = "Processor" -> low5
          [] destination.kind = "OnlySelf" -> set_bits(low5, 18, 20, 1)
          [] destination.kind = "AllIncludingSelf" -> set_bits(low5, 18, 20, 2)
          [] destination.kind = "AllExclusingSelf" -> set_bits(low5, 18, 20, 3)

\* InterruptCommand::new: Some command, or None when an assertion panics.
InterruptCommand_new(vector, destination, delivery_mode, destination_mode, trigger_mode, assert_mode) ==
    IF /\ InterruptCommand_new_asserts(vector, delivery_mode, trigger_mode, assert_mode)
       /\ InterruptCommand_new_destination_assert(destination, assert_mode)
    THEN Some([high |-> IF destination.kind = "Processor" THEN destination.id ELSE 0,
               low |-> InterruptCommand_low(vector, destination, delivery_mode,
                                            destination_mode, trigger_mode, assert_mode)])
    ELSE None

\* What the model keeps of one InterruptCommand: the arguments of new, the
\* command built, and whether it was written to the INTERRUPT_COMMAND register.
IcrCall(state, vector, destination, delivery_mode, destination_mode, trigger_mode, assert_mode, command) ==
    [state |-> state, vector |-> vector, destination |-> destination,
     delivery_mode |-> delivery_mode, destination_mode |-> destination_mode,
     trigger_mode |-> trigger_mode, assert_mode |-> assert_mode, command |-> command]

IcrInit == icr = IcrCall("none", None, OnlySelf, "Fixed", "Physical", "Edge", "Assert", None)

\* A caller builds a command.
NewInterruptCommand(vector, destination, delivery_mode, destination_mode, trigger_mode, assert_mode) ==
    /\ icr.state = "none"
    /\ UNCHANGED not_icr
    /\ LET command == InterruptCommand_new(vector, destination, delivery_mode,
                                           destination_mode, trigger_mode, assert_mode)
       IN  icr' = IcrCall(IF command = None THEN "new_panicked" ELSE "built",
                          vector, destination, delivery_mode, destination_mode,
                          trigger_mode, assert_mode, command)
    /\ UNCHANGED not_boot_vars

\* x2Apic::send_interrupt_command on the command built.
send_interrupt_command ==
    /\ icr.state = "built"
    /\ icr' = [icr EXCEPT !.state =
                 IF get_bits(unwrap(icr.command).low, 8, 11) # 1
                 THEN "sent" ELSE "send_panicked"]
    /\ UNCHANGED not_icr
    /\ UNCHANGED not_boot_vars

(***************************************************************************)
(* The stopwatch: time/stopwatch.rs.                                       *)
(***************************************************************************)
\* The frequency of the ACPI power management timer and the rates
\* Stopwatch::init derives from it.
PM_TIMER_FREQUENCY == 3579545
ticks_per_sec == PM_TIMER_FREQUENCY
ticks_per_ms == PM_TIMER_FREQUENCY \div 1000
ticks_per_us == (PM_TIMER_FREQUENCY \div 1000) \div 1000

\* Source::max_value: 0x00FF_FFFF for the 24-bit counter; the 0xFFFF_FFFF of
\* the 32-bit counter is scaled to 30 bits.
MAX_VALUE_24 == 2^24 - 1
MAX_VALUE_32 == 2^30 - 1
MaxValues == {MAX_VALUE_24, MAX_VALUE_32}

\* u64::saturating_sub
saturating_sub(a, b) == IF a > b THEN a - b ELSE 0

\* The block that computes elapsed_ticks in the loop of spin_wait.
elapsed_ticks_of(last_tick_count, current_tick_count, max_value) ==
    IF last_tick_count < current_tick_count
    THEN current_tick_count - last_tick_count
    ELSE LET overflow_ticks == max_value - last_tick_count
         IN  current_tick_count + overflow_ticks

\* What the counter reads after `advance` more ticks.
counter_after(count, advance, max_value) == (count + advance) % (max_value + 1)

StopwatchInit ==
    stopwatch = [pc |-> "idle", max_value |-> 0, duration_us |-> 0, wait_ticks |-> 0,
                 last_tick_count |-> 0, real_ticks |-> 0, accounted_ticks |-> 0, reads |-> 0]

\* Stopwatch::spin_wait up to the loop: the tick target and the first read.
\* real_ticks and accounted_ticks record the ticks that passed since that
\* read and the ticks the loop has subtracted.
spin_wait_begin(max_value, duration_us, tick_count) ==
    /\ stopwatch.pc = "idle"
    /\ stopwatch' =
         [pc |-> "loop", max_value |-> max_value, duration_us |-> duration_us,
          wait_ticks |-> duration_us * ticks_per_us, last_tick_count |-> tick_count,
          real_ticks |-> 0, accounted_ticks |-> 0, reads |-> 0]
    /\ UNCHANGED not_stopwatch
    /\ UNCHANGED not_boot_vars

\* One turn of the loop, the counter having advanced by `advance` ticks since
\* the last read.
spin_wait_loop(advance) ==
    /\ stopwatch.pc = "loop"
    /\ stopwatch.wait_ticks > 0
    /\ LET current_tick_count ==
               counter_after(stopwatch.last_tick_count, advance, stopwatch.max_value)
           elapsed_ticks ==
               elapsed_ticks_of(stopwatch.last_tick_count, current_tick_count,
                                stopwatch.max_value)
       IN  stopwatch' =
             [stopwatch EXCEPT
                !.wait_ticks = saturating_sub(@, elapsed_ticks),
                !.last_tick_count = current_tick_count,
                !.real_ticks = @ + advance,
                !.accounted_ticks = @ + elapsed_ticks,
                !.reads = @ + 1]
    /\ UNCHANGED not_stopwatch
    /\ UNCHANGED not_boot_vars

\* The loop's condition fails and spin_wait returns.
spin_wait_return ==
    /\ stopwatch.pc = "loop"
    /\ stopwatch.wait_ticks = 0
    /\ stopwatch' = [stopwatch EXCEPT !.pc = "returned"]
    /\ UNCHANGED not_stopwatch
    /\ UNCHANGED not_boot_vars

(***************************************************************************)
(* The local timer: time/local_timer/x86_64.rs.                            *)
(***************************************************************************)
U32_MAX == 2^LapicCountBits - 1
U64_MAX == 2^TscBits - 1

\* uN::try_from(duration.as_micros()) and uN::checked_mul, for the integer
\* type whose largest value is max.
try_from(max, value) == IF value <= max THEN Some(value) ELSE None
checked_mul(max, a, b) == IF a * b <= max THEN Some(a * b) ELSE None

\* LocalTimer::set_wait: the result and the registers after the call, given
\* the registers before it.
LocalTimer_set_wait(timer, duration_us, registers) ==
    IF timer.kind = "TimestampCounter"
    THEN LET wait_us == try_from(U64_MAX, duration_us)
             wait_ticks == IF wait_us = None THEN None
                           ELSE checked_mul(U64_MAX, timer.frequency \div 1000000,
                                            unwrap(wait_us))
         IN  IF wait_ticks = None
             THEN [result |-> "InvalidWait", registers |-> registers]
             ELSE [result |-> "Ok",
                   registers |-> [registers EXCEPT !.IA32_TSC_DEADLINE = wait_ticks]]
    ELSE LET wait_us == try_from(U32_MAX, duration_us)
             wait_ticks == IF wait_us = None THEN None
                           ELSE checked_mul(U32_MAX, timer.frequency \div 1000000,
                                            unwrap(wait_us))
         IN  IF wait_ticks = None
             THEN [result |-> "InvalidWait", registers |-> registers]
             ELSE [result |-> "Ok",
                   registers |-> [registers EXCEPT !.TIMER_INITIAL_COUNT = wait_ticks]]

\* The timer registers before any wait is armed: Some(value) once written.
TimerRegisters_unwritten == [IA32_TSC_DEADLINE |-> None, TIMER_INITIAL_COUNT |-> None]

LocalTimerInit ==
    local_timer = [kind |-> "none", frequency |-> 0, tsc |-> 0, duration_us |-> 0,
                   result |-> "none", registers |-> TimerRegisters_unwritten]

\* A thread whose timestamp counter reads tsc arms a wait on its local timer.
set_wait(kind, frequency, tsc, duration_us) ==
    /\ local_timer.kind = "none"
    /\ LET outcome == LocalTimer_set_wait([kind |-> kind, frequency |-> frequency],
                                          duration_us, local_timer.registers)
       IN  local_timer' = [kind |-> kind, frequency |-> frequency, tsc |-> tsc,
                           duration_us |-> duration_us, result |-> outcome.result,
                           registers |-> outcome.registers]
    /\ UNCHANGED not_local_timer
    /\ UNCHANGED not_boot_vars

(***************************************************************************)
(* Kernel parameters: params.rs.                                           *)
(***************************************************************************)
\* A command line is a sequence of tokens and of the spaces that separate
\* them, so that the string "--nomp" is <<"--nomp">> and "--nomp --lomem" is
\* <<"--nomp", " ", "--lomem">>.
KnownTokens == {"--nomp", "--keep-symbols", "--lomem"}
SPACE == " "

\* Parameters::default()
Parameters_default ==
    [use_multiprocessing |-> TRUE, keep_symbol_info |-> TRUE, low_memory_mode |-> FALSE]

\* What the bootloader answers to the command-line request: no response, a
\* string that is not UTF-8, or a string.
NoResponse == [kind |-> "None", cmdline |-> <<>>]
NotUtf8 == [kind |-> "Err", cmdline |-> <<>>]
Cmdline(str) == [kind |-> "Ok", cmdline |-> str]

\* parse_impl: the match on the whole command line.
parse_impl(response) ==
    CASE response.kind = "Ok" /\ response.cmdline = <<>> -> Parameters_default
      [] response.kind = "Ok" /\ response.cmdline = <<"--nomp">> ->
             [Parameters_default EXCEPT !.use_multiprocessing = FALSE]
      [] response.kind = "Ok" /\ response.cmdline = <<"--keep-symbols">> ->
             [Parameters_default EXCEPT !.keep_symbol_info = TRUE]
      [] response.kind = "Ok" /\ response.cmdline = <<"--lomem">> ->
             [Parameters_default EXCEPT !.low_memory_mode = TRUE]
      [] OTHER -> Parameters_default

\* PARAMS before parse and once parse has run.
Params_unset == [set |-> FALSE, response |-> NoResponse, parameters |-> Parameters_default]
Params_of(response) == [set |-> TRUE, response |-> response, parameters |-> parse_impl(response)]

ParamsInit == params = Params_unset

\* params::parse: PARAMS.call_once(|| parse_impl(request)).
parse(response) ==
    /\ ~params.set
    /\ params' = Params_of(response)
    /\ UNCHANGED not_params
    /\ UNCHANGED not_boot_vars

(***************************************************************************)
(* Start-up of the hardware threads: cpu/mod.rs.                           *)
(***************************************************************************)
\* The hardware thread the bootloader enters the kernel on.
BOOTSTRAP == 1

\* spin::Barrier::new, and Barrier::wait up to its decision: the last thread
\* to arrive resets the count and starts a new generation, the others wait
\* for the generation to change. A waiting thread is at most one generation
\* behind, so the generation is kept modulo 2.
Barrier_new(n) == [num_threads |-> n, count |-> 0, generation_id |-> 0]
Barrier_is_last(barrier) == barrier.count + 1 >= barrier.num_threads
\* Barrier::wait whose last arriver resets the count and leaves the
\* generation as it was.
Barrier_arrive_same_generation(barrier) ==
    IF Barrier_is_last(barrier)
    THEN [barrier EXCEPT !.count = 0]
    ELSE [barrier EXCEPT !.count = @ + 1]

Barrier_arrive(barrier) ==
    IF Barrier_is_last(barrier)
    THEN [barrier EXCEPT !.count = 0, !.generation_id = 1 - @]
    ELSE [barrier EXCEPT !.count = @ + 1]

\* The Range<usize> of a memory-map entry, and check_range_contains_stack.
entry_range(entry) == [start |-> entry.base, end |-> entry.base + entry.length]
\* A check that never finds the stack in the range.
check_range_contains_stack_never(range, stack_address) == FALSE

check_range_contains_stack(range, stack_address) ==
    range.start <= stack_address /\ stack_address < range.end

\* The statics of synchronize before the bootstrap thread touches them.
Sync_new ==
    [ENTRY_TO_CHECK |-> None, IS_ENTRY_USED |-> FALSE,
     ENTRY_READY_SYNC |-> None, ENTRY_PROCESSED_SYNC |-> None]

\* A hardware thread as the bootloader hands it over: interrupts disabled,
\* the timer entry of the local vector table masked, no step of the
\* start-up taken.
HardwareThread_new ==
    [tss_loaded |-> FALSE, lic_enabled |-> FALSE, timer_vector |-> 0, timer_masked |-> TRUE,
     local_state |-> FALSE, interrupts_enabled |-> FALSE, panicked |-> FALSE, steps |-> <<>>,
     checked |-> <<>>]

\* The bootstrap thread's position in the memory map, the range it took last,
\* and the record of its rounds: every value it wrote to ENTRY_TO_CHECK and
\* every value of IS_ENTRY_USED it loaded.
Bsp_new == [index |-> 1, range |-> None, published |-> <<>>, consulted |-> <<>>]

\* panic: the handler reports and calls halt_and_catch_fire, which disables
\* interrupts and enters interrupts::wait_indefinite.
halt_and_catch_fire(thread) == [thread EXCEPT !.interrupts_enabled = FALSE]
panic(thread) == halt_and_catch_fire([thread EXCEPT !.panicked = TRUE])

\* No machine: the state of the start-up variables in the runs that do not
\* start one.
StartupInit ==
    /\ machine = [cpus |-> 0, mp_response |-> FALSE, stack |-> [h \in Threads |-> None]]
    /\ boot_pc = [h \in Threads |-> "none"]
    /\ sync = Sync_new
    /\ bsp = Bsp_new
    /\ barrier_gen = [h \in Threads |-> 0]
    /\ hw = [h \in Threads |-> HardwareThread_new]
    /\ reclaimed = {}

\* Everything the start-up leaves alone but the frame table.
startup_frame ==
    <<sched_vars, alloc_vars, paging_vars, gate_vars, device_vars, machine,
      memory_map, pmm_state, total_frames, table_readers, pmm_pc, pmm_arg, pmm_ret,
      pmm_calls, table0>>

\* synchronize(Some(..)) on the bootstrap thread up to begin_multiprocessing:
\* with a response to the MP request every other hardware thread is sent to
\* _mp_entry, or to _idle_forever when use_multiprocessing is off.
begin_multiprocessing ==
    /\ boot_pc[BOOTSTRAP] = "synchronize"
    /\ boot_pc' =
         [h \in Threads |->
            IF h = BOOTSTRAP
            THEN IF machine.mp_response THEN "call_once" ELSE "reclaim"
            ELSE IF machine.mp_response /\ h <= machine.cpus
                 THEN IF params.parameters.use_multiprocessing
                      THEN "mp_entry" ELSE "idle_forever"
                 ELSE boot_pc[h]]
    /\ UNCHANGED <<sync, bsp, barrier_gen, hw, reclaimed, table, net_locked>>
    /\ UNCHANGED startup_frame

\* The two call_once that build the barriers for response.cpus().len()
\* threads.
call_once_barriers ==
    /\ boot_pc[BOOTSTRAP] = "call_once"
    /\ sync' = [sync EXCEPT !.ENTRY_READY_SYNC = Some(Barrier_new(machine.cpus)),
                            !.ENTRY_PROCESSED_SYNC = Some(Barrier_new(machine.cpus))]
    /\ boot_pc' = [boot_pc EXCEPT ![BOOTSTRAP] = "reclaim"]
    /\ UNCHANGED <<bsp, barrier_gen, hw, reclaimed, table, net_locked>>
    /\ UNCHANGED startup_frame

\* The indices from `from` on of the entries that pass the first two stages
\* of the iterator chain: BOOTLOADER_RECLAIMABLE, and not holding the
\* bootstrap thread's stack.
candidate_entries(from) ==
    {i \in from..Len(memory_map) :
        /\ memory_map[i].entry_type = "BOOTLOADER_RECLAIMABLE"
        /\ ~check_range_contains_stack(entry_range(memory_map[i]),
                                       unwrap(machine.stack[BOOTSTRAP]))}

Min(set) == CHOOSE x \in set : \A y \in set : x <= y

\* The bootstrap thread pulls the next entry through the chain. Without the
\* barriers the entry goes on to be reclaimed; with them it is published, the
\* consensus flag is reset and the thread goes to the entry-ready barrier.
\* When the entries are exhausted the thread clears ENTRY_TO_CHECK and goes
\* to the entry-ready barrier a last time, or, without barriers, on to the
\* rest of the start-up.
reclaim_next ==
    /\ boot_pc[BOOTSTRAP] = "reclaim"
    /\ IF candidate_entries(bsp.index) = {}
       THEN /\ bsp' = [bsp EXCEPT !.index = Len(memory_map) + 1, !.range = None,
                                  !.published = IF sync.ENTRY_READY_SYNC # None
                                                THEN Append(@, None) ELSE @]
            /\ IF sync.ENTRY_READY_SYNC # None
               THEN /\ sync' = [sync EXCEPT !.ENTRY_TO_CHECK = None]
                    /\ boot_pc' = [boot_pc EXCEPT ![BOOTSTRAP] = "final_ready"]
               ELSE /\ boot_pc' = [boot_pc EXCEPT ![BOOTSTRAP] = "load_tss"]
                    /\ UNCHANGED sync
       ELSE LET i == Min(candidate_entries(bsp.index))
                range == entry_range(memory_map[i])
            IN  /\ bsp' = [bsp EXCEPT !.index = i + 1, !.range = Some(range),
                                      !.published =
                                          IF /\ sync.ENTRY_READY_SYNC # None
                                             /\ sync.ENTRY_PROCESSED_SYNC # None
                                          THEN Append(@, Some(range)) ELSE @]
                /\ IF sync.ENTRY_READY_SYNC # None /\ sync.ENTRY_PROCESSED_SYNC # None
                   THEN /\ sync' = [sync EXCEPT !.ENTRY_TO_CHECK = Some(range),
                                                !.IS_ENTRY_USED = FALSE]
                        /\ boot_pc' = [boot_pc EXCEPT ![BOOTSTRAP] = "entry_ready"]
                   ELSE /\ boot_pc' = [boot_pc EXCEPT ![BOOTSTRAP] = "free"]
                        /\ UNCHANGED sync
    /\ UNCHANGED <<barrier_gen, hw, reclaimed, table, net_locked>>
    /\ UNCHANGED startup_frame

\* Where a thread calls Barrier::wait, on which barrier, and where it goes on.
BarrierPcs == {"entry_ready", "entry_processed", "final_ready"}
barrier_at(at) == IF at = "entry_processed" THEN "ENTRY_PROCESSED_SYNC" ELSE "ENTRY_READY_SYNC"
waiting(at) ==
    CASE at = "entry_ready" -> "entry_ready_wait"
      [] at = "entry_processed" -> "entry_processed_wait"
      [] at = "final_ready" -> "final_ready_wait"
after_barrier(h, at) ==
    CASE at \in {"entry_ready", "entry_ready_wait"} ->
             IF h = BOOTSTRAP THEN "entry_processed" ELSE "check"
      [] at \in {"entry_processed", "entry_processed_wait"} ->
             IF h = BOOTSTRAP THEN "consult" ELSE "entry_ready"
      [] at \in {"final_ready", "final_ready_wait"} -> "load_tss"

\* Barrier::wait: the thread arrives; the last to arrive goes on at once.
Barrier_wait_arrive(h) ==
    /\ boot_pc[h] \in BarrierPcs
    /\ LET name == barrier_at(boot_pc[h])
           barrier == unwrap(sync[name])
       IN  /\ sync' = [sync EXCEPT ![name] = Some(Barrier_arrive(barrier))]
           /\ barrier_gen' = [barrier_gen EXCEPT ![h] = barrier.generation_id]
           /\ boot_pc' = [boot_pc EXCEPT ![h] =
                            IF Barrier_is_last(barrier)
                            THEN after_barrier(h, boot_pc[h]) ELSE waiting(boot_pc[h])]
    /\ UNCHANGED <<bsp, hw, reclaimed, table, net_locked>>
    /\ UNCHANGED startup_frame

\* Barrier::wait: a waiting thread sees the new generation and goes on.
Barrier_wait_pass(h) ==
    /\ boot_pc[h] \in {waiting(at) : at \in BarrierPcs}
    /\ LET at == CHOOSE at \in BarrierPcs : waiting(at) = boot_pc[h]
       IN  /\ unwrap(sync[barrier_at(at)]).generation_id # barrier_gen[h]
           /\ boot_pc' = [boot_pc EXCEPT ![h] = after_barrier(h, at)]
    /\ UNCHANGED <<sync, bsp, barrier_gen, hw, reclaimed, table, net_locked>>
    /\ UNCHANGED startup_frame

\* The last stage of the filter on the bootstrap thread: the entry stays in
\* the chain, to be reclaimed, when IS_ENTRY_USED.load() is true.
consult ==
    /\ boot_pc[BOOTSTRAP] = "consult"
    /\ boot_pc' = [boot_pc EXCEPT ![BOOTSTRAP] = IF sync.IS_ENTRY_USED THEN "free" ELSE "reclaim"]
    /\ bsp' = [bsp EXCEPT !.consulted = Append(@, sync.IS_ENTRY_USED)]
    /\ UNCHANGED <<sync, barrier_gen, hw, reclaimed, table, net_locked>>
    /\ UNCHANGED startup_frame

\* flatten, step_by(page_size), free_frame(frame).unwrap() over the entry
\* that came through the chain.
free_entry ==
    /\ boot_pc[BOOTSTRAP] = "free"
    /\ LET range == unwrap(bsp.range)
           result == try_for_each_free_frame(table, total_frames, Address_index(range.start),
                                             align_up_div(range.end, PAGE_SHIFT))
       IN  IF result.result = "Ok"
           THEN /\ table' = result.table
                /\ net_locked' = net_locked - PopCount(table) + PopCount(result.table)
                /\ reclaimed' = reclaimed \cup (Address_index(range.start)
                                           ..(align_up_div(range.end, PAGE_SHIFT) - 1))
                /\ boot_pc' = [boot_pc EXCEPT ![BOOTSTRAP] = "reclaim"]
                /\ UNCHANGED hw
           ELSE /\ hw' = [hw EXCEPT ![BOOTSTRAP] = panic(@)]
                /\ boot_pc' = [boot_pc EXCEPT ![BOOTSTRAP] = "wait_indefinite"]
                /\ UNCHANGED <<table, net_locked, reclaimed>>
    /\ UNCHANGED <<sync, bsp, barrier_gen>>
    /\ UNCHANGED startup_frame

\* _mp_entry on a secondary thread: configure, install the kernel page
\* tables, call synchronize(None).
mp_entry(h) ==
    /\ boot_pc[h] = "mp_entry"
    /\ boot_pc' = [boot_pc EXCEPT ![h] = "once_wait"]
    /\ UNCHANGED <<sync, bsp, barrier_gen, hw, reclaimed, table, net_locked>>
    /\ UNCHANGED startup_frame

\* _idle_forever on a secondary thread: halt_and_catch_fire.
idle_forever(h) ==
    /\ boot_pc[h] = "idle_forever"
    /\ hw' = [hw EXCEPT ![h] = halt_and_catch_fire(@)]
    /\ boot_pc' = [boot_pc EXCEPT ![h] = "halted"]
    /\ UNCHANGED <<sync, bsp, barrier_gen, reclaimed, table, net_locked>>
    /\ UNCHANGED startup_frame

\* ENTRY_READY_SYNC.wait() and ENTRY_PROCESSED_SYNC.wait(): the secondary
\* thread waits for the bootstrap thread to build the barriers.
once_wait(h) ==
    /\ boot_pc[h] = "once_wait"
    /\ sync.ENTRY_READY_SYNC # None
    /\ sync.ENTRY_PROCESSED_SYNC # None
    /\ boot_pc' = [boot_pc EXCEPT ![h] = "entry_ready"]
    /\ UNCHANGED <<sync, bsp, barrier_gen, hw, reclaimed, table, net_locked>>
    /\ UNCHANGED startup_frame

\* The body of the secondary thread's loop between the two barriers: leave
\* the loop on None, else report the entry as used if it holds the stack.
check_entry(h) ==
    /\ boot_pc[h] = "check"
    /\ IF sync.ENTRY_TO_CHECK = None
       THEN /\ boot_pc' = [boot_pc EXCEPT ![h] = "load_tss"]
            /\ UNCHANGED sync
       ELSE /\ sync' = [sync EXCEPT !.IS_ENTRY_USED =
                          IF check_range_contains_stack(unwrap(sync.ENTRY_TO_CHECK),
                                                        unwrap(machine.stack[h]))
                          THEN TRUE ELSE @]
            /\ boot_pc' = [boot_pc EXCEPT ![h] = "entry_processed"]
    /\ hw' = [hw EXCEPT ![h].checked = Append(@, sync.ENTRY_TO_CHECK)]
    /\ UNCHANGED <<bsp, barrier_gen, reclaimed, table, net_locked>>
    /\ UNCHANGED startup_frame

\* A thread with one more step of the sequence after the barrier on record.
stepped(thread, step) == [thread EXCEPT !.steps = Append(@, step)]

\* TaskStateSegment::load_local
load_tss(h) ==
    /\ boot_pc[h] = "load_tss"
    /\ hw' = [hw EXCEPT ![h] = stepped([@ EXCEPT !.tss_loaded = TRUE], "load_tss")]
    /\ boot_pc' = [boot_pc EXCEPT ![h] = "lic_reset"]
    /\ UNCHANGED <<sync, bsp, barrier_gen, reclaimed, table, net_locked>>
    /\ UNCHANGED startup_frame

\* Vector::Timer
VECTOR_TIMER == 33

\* x2Apic::reset: the controller is disabled and its local vector table
\* programmed; the timer entry gets Vector::Timer and is masked.
x2Apic_reset(h) ==
    /\ boot_pc[h] = "lic_reset"
    /\ hw' = [hw EXCEPT ![h] =
                 stepped([@ EXCEPT !.lic_enabled = FALSE, !.timer_vector = VECTOR_TIMER,
                                   !.timer_masked = TRUE], "lic_reset")]
    /\ boot_pc' = [boot_pc EXCEPT ![h] = "lic_enable"]
    /\ UNCHANGED <<sync, bsp, barrier_gen, reclaimed, table, net_locked>>
    /\ UNCHANGED startup_frame

\* x2Apic::set_enabled(true)
x2Apic_set_enabled(h) ==
    /\ boot_pc[h] = "lic_enable"
    /\ hw' = [hw EXCEPT ![h] = stepped([@ EXCEPT !.lic_enabled = TRUE], "lic_enable")]
    /\ boot_pc' = [boot_pc EXCEPT ![h] = "local_state"]
    /\ UNCHANGED <<sync, bsp, barrier_gen, reclaimed, table, net_locked>>
    /\ UNCHANGED startup_frame

\* LocalState::init: the local timer is configured (its mode is set), the
\* scheduler is built and the state published.
LocalState_init(h) ==
    /\ boot_pc[h] = "local_state"
    /\ hw' = [hw EXCEPT ![h] = stepped([@ EXCEPT !.local_state = TRUE], "local_state")]
    /\ boot_pc' = [boot_pc EXCEPT ![h] = "breakpoint"]
    /\ UNCHANGED <<sync, bsp, barrier_gen, reclaimed, table, net_locked>>
    /\ UNCHANGED startup_frame

\* exceptions::handle returns for a page fault it could handle and panics
\* for every other exception.
handle_returns(exception) == exception = "PageFault"

\* The exception each stub of the first 32 vectors hands to handle.
exception_of(stub) ==
    CASE stub = "__bp_stub" -> "Breakpoint"
      [] stub = "__pf_stub" -> "PageFault"
      [] OTHER -> "Other"

\* core::arch::breakpoint() and what follows it. The processor takes #BP
\* through the table; if the handler returns, interrupts are enabled and the
\* thread enters the indefinite wait.
breakpoint(h) ==
    /\ boot_pc[h] = "breakpoint"
    /\ LET entry == idt[3]
           thread == stepped(hw[h], "breakpoint")
       IN  IF entry.present /\ handle_returns(exception_of(entry.stub))
           THEN hw' = [hw EXCEPT ![h] =
                         stepped([thread EXCEPT !.interrupts_enabled = TRUE],
                                 "enable_interrupts")]
           ELSE hw' = [hw EXCEPT ![h] = panic(thread)]
    /\ boot_pc' = [boot_pc EXCEPT ![h] = "wait_indefinite"]
    /\ UNCHANGED <<sync, bsp, barrier_gen, reclaimed, table, net_locked>>
    /\ UNCHANGED startup_frame

\* _entry on the bootstrap thread up to the call of synchronize:
\* configure_hwthread builds and loads the interrupt descriptor table and
\* params::parse reads the command line; the memory managers are those of
\* the initial state.
kernel_entry(response) ==
    /\ boot_pc[BOOTSTRAP] = "entry"
    /\ idt' = InterruptDescriptorTable
    /\ params' = Params_of(response)
    /\ boot_pc' = [boot_pc EXCEPT ![BOOTSTRAP] = "synchronize"]
    /\ UNCHANGED <<klog_call, delivery, icr, stopwatch, local_timer, cell>>
    /\ UNCHANGED <<machine, sync, bsp, barrier_gen, hw, reclaimed>>
    /\ UNCHANGED <<sched_vars, pmm_vars, alloc_vars, paging_vars>>

(***************************************************************************)
(* Interrupt entry and InterruptCell: interrupts/mod.rs, idt/entry.rs,     *)
(* cpu/local_state.rs.                                                     *)
(***************************************************************************)
\* No handler is running on the thread.
Cell_idle == [op |-> "none", interrupts_enabled |-> FALSE, before |-> FALSE, after |-> FALSE]
CellInit == cell = [h \in Threads |-> Cell_idle]

\* Options::minimal: every entry is a 64-bit interrupt gate (type 0b1110), so
\* the processor clears IF when it enters the handler; a trap gate (bit 8
\* set) would leave the flag as it is.
Options_minimal_type == 14
gate_clears_interrupts(gate_type) == gate_type % 2 = 0

\* The end of interrupts::uninterruptable with the condition dropped, and as
\* it is: enable() if interrupts were enabled when it began.
restore_interrupts_always(interrupts_enabled, current) == TRUE
restore_interrupts(interrupts_enabled, current) == IF interrupts_enabled THEN TRUE ELSE current

\* The processor delivers the timer interrupt, or a task executes int 0x80,
\* on a thread that runs a task or idles: the frame is the interrupted
\* context, IF is cleared by the gate, and __irq_handler calls
\* LocalState::with_scheduler for the operation.
irq_gate(h, op) ==
    /\ pc[h] = "run"
    /\ cell[h].op = "none"
    /\ IF op = "interrupt_task" THEN hw[h].interrupts_enabled ELSE task[h] # None
    /\ hw' = [hw EXCEPT ![h].interrupts_enabled =
                 IF gate_clears_interrupts(Options_minimal_type) THEN FALSE ELSE @]
    /\ cell' = [cell EXCEPT ![h] = [Cell_idle EXCEPT !.op = op]]
    /\ pc' = [pc EXCEPT ![h] = "with_scheduler"]
    /\ preemption_wait' = [preemption_wait EXCEPT ![h] = IF op = "interrupt_task" THEN None ELSE @]
    /\ syscalls' = IF op = "interrupt_task" THEN syscalls ELSE syscalls + 1
    /\ UNCHANGED <<PROCESSES, PROCESSES_lock, task, isf, regs, cr3, fires, steps, snapshot,
                   dead, tasks>>
    /\ UNCHANGED <<pmm_vars, alloc_vars, paging_vars, gate_vars>>
    /\ UNCHANGED <<icr, stopwatch, local_timer, params>>
    /\ UNCHANGED <<machine, boot_pc, sync, bsp, barrier_gen, reclaimed>>

\* LocalState::with_scheduler -> InterruptCell::with -> the start of
\* uninterruptable: read the flag, disable interrupts if they were enabled,
\* then call the closure, which takes the scheduler operation.
uninterruptable_begin(h) ==
    /\ pc[h] = "with_scheduler"
    /\ cell' = [cell EXCEPT ![h].interrupts_enabled = hw[h].interrupts_enabled,
                            ![h].before = hw[h].interrupts_enabled]
    /\ hw' = [hw EXCEPT ![h].interrupts_enabled = FALSE]
    /\ pc' = [pc EXCEPT ![h] =
                 CASE cell[h].op = "interrupt_task" -> "timer_irq"
                   [] cell[h].op = "yield_task" -> "yield_task_lock"
                   [] cell[h].op = "kill_task" -> "kill_task"]
    /\ UNCHANGED <<PROCESSES, PROCESSES_lock, task, isf, regs, cr3, preemption_wait, fires,
                   steps, syscalls, snapshot, dead, tasks>>
    /\ UNCHANGED <<pmm_vars, alloc_vars, paging_vars, gate_vars>>
    /\ UNCHANGED <<icr, stopwatch, local_timer, params>>
    /\ UNCHANGED <<machine, boot_pc, sync, bsp, barrier_gen, reclaimed>>

\* The closure has returned: the end of uninterruptable.
uninterruptable_end(h) ==
    /\ pc[h] = "run"
    /\ cell[h].op \in {"interrupt_task", "yield_task", "kill_task"}
    /\ LET restored == restore_interrupts(cell[h].interrupts_enabled, hw[h].interrupts_enabled)
       IN  /\ hw' = [hw EXCEPT ![h].interrupts_enabled = restored]
           /\ cell' = [cell EXCEPT ![h].op = "done", ![h].after = restored]
    /\ UNCHANGED sched_vars
    /\ UNCHANGED <<pmm_vars, alloc_vars, paging_vars, gate_vars>>
    /\ UNCHANGED <<icr, stopwatch, local_timer, params>>
    /\ UNCHANGED <<machine, boot_pc, sync, bsp, barrier_gen, reclaimed>>

\* The rest of __irq_handler and the stub's iretq: the flags of the frame
\* returned to become the processor's.
irq_return(h) ==
    /\ pc[h] = "run"
    /\ cell[h].op = "done"
    /\ hw' = [hw EXCEPT ![h].interrupts_enabled = (isf[h].rflags = RFLAGS_IF)]
    /\ cell' = [cell EXCEPT ![h] = Cell_idle]
    /\ UNCHANGED sched_vars
    /\ UNCHANGED <<pmm_vars, alloc_vars, paging_vars, gate_vars>>
    /\ UNCHANGED <<icr, stopwatch, local_timer, params>>
    /\ UNCHANGED <<machine, boot_pc, sync, bsp, barrier_gen, reclaimed>>

\* The state of the start-up devices before any of them is used.
BootInit ==
    /\ IcrInit
    /\ StopwatchInit
    /\ LocalTimerInit
    /\ ParamsInit
    /\ CellInit
    /\ StartupInit

\* The gate before any syscall and before the table is built.
GateInit ==
    /\ klog_call = KlogCall("none", 0, 0, <<>>, FALSE, "none")
    /\ idt = <<>>
    /\ delivery = [vector |-> 0, source |-> "none", outcome |-> "none", stub |-> "none",
                   irq_number |-> 0, handled |-> <<>>]

\* The paging state of a machine whose kernel mapper is not constructed.
PagingInit ==
    /\ frame_memory = <<>>
    /\ kernel_root = 0
    /\ user_root = None
    /\ mapper_call = MapperCall("none", 0, 0, None, 0, {}, "none")
    /\ mapper_calls = 0
    /\ memory_before = <<>>
    /\ table_before = <<>>
    /\ debug_assertions = FALSE

\* The state once every hardware thread has finished start-up and waits for
\* interrupts, with n tasks loaded into the run queue in the order 1..n.
SchedInit(n) ==
    /\ tasks = 1..n
    /\ PROCESSES = [i \in 1..n |-> NewTask(i)]
    /\ PROCESSES_lock = None
    /\ task = [h \in Threads |-> None]
    /\ isf = [h \in Threads |-> BootFrame(h)]
    /\ regs = [h \in Threads |-> BootRegisters(h)]
    /\ cr3 = [h \in Threads |-> KERNEL_ADDRESS_SPACE]
    /\ preemption_wait = [h \in Threads |-> None]
    /\ pc = [h \in Threads |-> "run"]
    /\ fires = 0
    /\ steps = 0
    /\ syscalls = 0
    /\ snapshot = [i \in 1..(MaxTasks + 1) |-> None]
    /\ dead = {}

\* The memory map the scheduler runs are started with.
SchedMemoryMap == <<Entry(0, 1, "RESERVED"), Entry(1, 1, "USABLE")>>

Init == AllocInit /\ PagingInit /\ GateInit /\ BootInit /\ PmmReady(SchedMemoryMap) /\ \E n \in 0..MaxLoaded : SchedInit(n)

\* Timer preemption and syscalls of tasks on every hardware thread. What the
\* tasks compute between two interrupts is left to SpecTimer.
Next ==
    \E h \in Threads :
        \/ fires < MaxFires /\ TimerIrq(h)
        \/ interrupt_task_lock(h)
        \/ interrupt_task(h)
        \/ \E vector \in {"TaskYield", "TaskExit"} : syscalls < MaxSyscalls /\ Syscall(h, vector)
        \/ yield_task_lock(h)
        \/ yield_task(h)
        \/ kill_task(h)
        \/ kill_task_lock(h)
        \/ kill_task_next(h)

Spec == Init /\ [][Next]_vars

\* Timer preemption only: no task issues a syscall.
NextTimer ==
    \E h \in Threads :
        \/ \E r \in UserRegs, v \in 1..MaxRegVal : steps < MaxSteps /\ UserStep(h, r, v)
        \/ fires < MaxFires /\ TimerIrq(h)
        \/ interrupt_task_lock(h)
        \/ interrupt_task(h)

SpecTimer == Init /\ [][NextTimer]_vars

\* The round-robin runs: one hardware thread, a run queue of 1..MaxTasks
\* tasks, timer preemption only.
InitRoundRobin == AllocInit /\ PagingInit /\ GateInit /\ BootInit /\ PmmReady(SchedMemoryMap) /\ \E n \in 1..MaxTasks : SchedInit(n)

NextRoundRobin ==
    \/ \E r \in UserRegs, v \in 1..MaxRegVal : steps < MaxSteps /\ UserStep(1, r, v)
    \/ fires < MaxRoundRobinFires /\ TimerIrq(1)
    \/ interrupt_task_lock(1)
    \/ interrupt_task(1)

SpecRoundRobin == InitRoundRobin /\ [][NextRoundRobin]_vars

\* Construction of the physical memory manager from the memory maps of up to
\* MaxEntries entries within MaxMapFrames frames.
MemoryMaps == MapsFrom(0, MaxMapFrames, MaxEntries) \ {<<>>}

InitPmmInit == AllocInit /\ PagingInit /\ GateInit /\ BootInit /\ SchedInit(0) /\ \E map \in MemoryMaps : PmmBoot(map)

NextPmmInit == PhysicalMemoryManager_init

SpecPmmInit == InitPmmInit /\ [][NextPmmInit]_vars

\* The hardware threads call into the constructed manager concurrently.
FrameArgs == {Address_from_index(i) : i \in 0..total_frames}
AlignArgs == {None, Some(2 * PAGE_SIZE)}
\* The concurrent calls start from the tables of the single-entry maps: the
\* frames below the entry are free, the table's frame is locked.
PmmMemoryMaps == MapsFrom(0, MaxMapFrames, 1) \ {<<>>}

InitPmm ==
    /\ AllocInit
    /\ PagingInit
    /\ GateInit
    /\ BootInit
    /\ SchedInit(0)
    /\ \E map \in PmmMemoryMaps : ~init_panics(map) /\ PmmReady(map)

NextPmm ==
    \E h \in Threads :
        \/ pmm_calls < MaxPmmCalls /\ next_frame(h)
        \/ \E count \in 1..MaxCount, align_bits \in AlignArgs :
               pmm_calls < MaxPmmCalls /\ next_frames(h, count, align_bits)
        \/ \E address \in FrameArgs : pmm_calls < MaxPmmCalls /\ lock_frame_check(h, address)
        \/ lock_frame_set(h)
        \/ \E address \in FrameArgs : pmm_calls < MaxPmmCalls /\ free_frame_check(h, address)
        \/ free_frame_clear(h)

SpecPmm == InitPmm /\ [][NextPmm]_vars

\* One thread allocates and deallocates, and locks and frees frames between
\* two allocations.
LayoutSizes == {0, 1, PAGE_SIZE + 1} \cup {count * PAGE_SIZE : count \in 1..MaxCount}
LayoutAligns == {1, PAGE_SIZE, 2 * PAGE_SIZE}

InitAlloc == InitPmm

NextAlloc ==
    \/ \E size \in LayoutSizes, align \in LayoutAligns :
           pmm_calls < MaxPmmCalls /\ KernelAllocator_allocate(size, align)
    \/ KernelAllocator_deallocate
    \/ \E address \in FrameArgs :
           /\ pmm_calls < MaxPmmCalls
           /\ alloc_pc = "idle"
           /\ lock_frame_check(1, address) \/ free_frame_check(1, address)
    \/ lock_frame_set(1)
    \/ free_frame_clear(1)

SpecAlloc == InitAlloc /\ [][NextAlloc]_vars

\* Conversions through the direct map, for a base in the lower half, at the
\* start of the higher half and a page below the top of the address space.
HhdmBases == {PAGE_SIZE, HHDM_OFFSET, USIZE_MODULUS - PAGE_SIZE}
HhdmAddresses(base) ==
    {0, 1, PAGE_SIZE, PAGE_SIZE + 1, base - 1, base, base + 1, base + PAGE_SIZE,
     USIZE_MODULUS - base - 1, USIZE_MODULUS - base, USIZE_MODULUS - PAGE_SIZE, USIZE_MODULUS - 1}
        \cap (0..(USIZE_MODULUS - 1))
TypedAddresses(op, base) ==
    IF op \in {"frame_to_page", "page_to_frame"}
    THEN {address \in HhdmAddresses(base) : address % PAGE_SIZE = 0}
    ELSE HhdmAddresses(base)

InitHhdm ==
    /\ SchedInit(0)
    /\ PagingInit
    /\ GateInit
    /\ BootInit
    /\ PmmReady(SchedMemoryMap)
    /\ hhdm_base \in HhdmBases
    /\ hhdm_call = [op |-> "none", address |-> 0, result |-> None]
    /\ alloc_pc = "idle"
    /\ alloc_ptr = None
    /\ alloc_layout = <<PAGE_SIZE, 1>>
    /\ alloc_before = <<>>

NextHhdm ==
    \E op \in HhdmOps : \E address \in TypedAddresses(op, hhdm_base) :
        HigherHalfDirectMap_convert(op, address)

SpecHhdm == InitHhdm /\ [][NextHhdm]_vars

\* The kernel mapper: the page tables start as Mapper::new leaves them, in a
\* machine whose memory is one USABLE entry, and the kernel maps and unmaps
\* pages of the upper half at the leaf and the mega depth. Frames that hold no
\* table hold what the firmware left: zeroes, or bytes that read as entries.
PagingMemoryMap == <<Entry(0, MaxPagingFrames, "USABLE")>>

leftover_table ==
    [index \in 0..(TABLE_INDEX_SIZE - 1) |-> PageTableEntry_new(0, {"PRESENT", "ACCESSED"})]

MapperBoot(leftover) ==
    LET frames == total_frames_of(PagingMemoryMap)
        created == Mapper_new([index \in 0..(frames - 1) |-> leftover],
                              init_table(PagingMemoryMap))
    IN /\ memory_map = PagingMemoryMap
       /\ pmm_state = "ready"
       /\ table = created.table
       /\ total_frames = frames
       /\ table_readers = {}
       /\ pmm_pc = [h \in Threads |-> "idle"]
       /\ pmm_arg = [h \in Threads |-> 0]
       /\ pmm_ret = Return("none", <<>>, "none", 0)
       /\ pmm_calls = 0
       /\ table0 = init_table(PagingMemoryMap)
       /\ net_locked = 0
       /\ frame_memory = created.memory
       /\ kernel_root = created.root_frame
       /\ user_root = None
       /\ mapper_call = MapperCall("none", 0, 0, None, 0, {}, "none")
       /\ mapper_calls = 0
       /\ memory_before = created.memory
       /\ table_before = created.table

MEGA_SIZE == 2 ^ depth_shift(TableDepth_mega)

MapperPages == {HHDM_OFFSET, HHDM_OFFSET + PAGE_SIZE}
MapperDepths == {TableDepth_min, TableDepth_mega}
MapperFrames == {Address_from_index(0), Address_from_index(MaxPagingFrames - 1)}
MapperAttributes ==
    {{"PRESENT"}, TableEntryFlags_RW, TableEntryFlags_RW \cup {"HUGE"}}

InitMapper ==
    /\ SchedInit(0)
    /\ AllocInit
    /\ GateInit
    /\ BootInit
    /\ debug_assertions \in BOOLEAN
    /\ \E leftover \in {zeroed_table, leftover_table} : MapperBoot(leftover)

NextMapper ==
    \/ \E page \in MapperPages, depth \in MapperDepths, frame \in MapperFrames,
          lock_frame \in BOOLEAN, attributes \in MapperAttributes :
           /\ mapper_calls < MaxMapperCalls
           /\ KernelMapper_map(page, depth, frame, lock_frame, attributes)
    \/ \E page \in MapperPages, to_depth \in {None} \cup {Some(depth) : depth \in MapperDepths},
          free_frame \in BOOLEAN :
           /\ mapper_calls < MaxMapperCalls
           /\ KernelMapper_unmap(page, to_depth, free_frame)

SpecMapper == InitMapper /\ [][NextMapper]_vars

\* A user AddressSpace beside the kernel mapper: the kernel maps pages of the
\* upper half, the AddressSpace is constructed once, and the task's ranges
\* start in the lower half, end in the upper half or lie in it.
KernelPages == {HHDM_OFFSET, HHDM_OFFSET + MEGA_SIZE}
UserAddresses == {0, HHDM_OFFSET - PAGE_SIZE, HHDM_OFFSET}
UserFlags == {{"PRESENT", "USER"}, {"PRESENT", "USER", "WRITE"}}

\* Every map of this specification is at the leaf depth, where Mapper::map
\* asserts nothing, so that one build stands for both.
InitAddressSpace ==
    /\ SchedInit(0)
    /\ AllocInit
    /\ GateInit
    /\ BootInit
    /\ debug_assertions = FALSE
    /\ \E leftover \in {zeroed_table, leftover_table} : MapperBoot(leftover)

NextAddressSpace ==
    \/ \E page \in KernelPages :
           /\ mapper_calls < MaxAddressSpaceCalls
           /\ KernelMapper_map(page, TableDepth_min, Address_from_index(0), FALSE,
                               TableEntryFlags_RW)
    \/ mapper_calls < MaxAddressSpaceCalls /\ AddressSpace_new_userspace
    \/ \E address \in UserAddresses, page_count \in 1..MaxPageCount,
          permissions \in MmapPermissions :
           /\ mapper_calls < MaxAddressSpaceCalls
           /\ AddressSpace_mmap(address, page_count, permissions)
    \/ \E address \in UserAddresses, page_count \in 1..MaxPageCount, flags \in UserFlags :
           /\ mapper_calls < MaxAddressSpaceCalls
           /\ AddressSpace_set_flags(address, page_count, flags)

SpecAddressSpace == InitAddressSpace /\ [][NextAddressSpace]_vars

\* The Klog syscalls of one hardware thread, before and after the first timer
\* interrupt gives it a task: buffers that start on and off a page boundary
\* and end before, on and after the next one.
MaxKlogPages == 2

KlogPointers == {PAGE_SIZE, PAGE_SIZE + 1, 2 * PAGE_SIZE - 1}
KlogLengths ==
    {0, 1, 2, PAGE_SIZE + 1} \cup {count * PAGE_SIZE : count \in 1..MaxKlogPages}

InitKlog ==
    /\ AllocInit
    /\ PagingInit
    /\ GateInit
    /\ BootInit
    /\ PmmReady(SchedMemoryMap)
    /\ SchedInit(1)

NextKlog ==
    \/ fires = 0 /\ TimerIrq(1)
    \/ interrupt_task_lock(1)
    \/ interrupt_task(1)
    \/ \E level \in KlogLevels, str_ptr_arg \in KlogPointers, str_len \in KlogLengths,
          valid \in BOOLEAN :
           \E outcomes \in [1..align_up_div(str_len, PAGE_SHIFT) -> DemandMapResults] :
               process_klog(1, level, str_ptr_arg, str_len, outcomes, valid)

SpecKlog == InitKlog /\ [][NextKlog]_vars

\* The table of one machine: built once, then an interrupt of any vector
\* arrives from the hardware or from INT n at either privilege level. The
\* table does not change with the interrupts taken, so a run takes one.
InitIdt ==
    /\ AllocInit
    /\ PagingInit
    /\ GateInit
    /\ BootInit
    /\ PmmReady(SchedMemoryMap)
    /\ SchedInit(0)

NextIdt ==
    \/ InterruptDescriptorTable_init
    \/ \E vector \in 0..255, source \in InterruptSources :
           delivery.source = "none" /\ Deliver(vector, source)

SpecIdt == InitIdt /\ [][NextIdt]_vars

(***************************************************************************)
(* InterruptCommand::new and send_interrupt_command over every combination *)
(* of arguments.                                                           *)
(***************************************************************************)
IpiVectors == {None, Some(48)}
IpiDestinations == {Processor(1), OnlySelf, AllIncludingSelf, AllExclusingSelf}

InitIpi ==
    /\ AllocInit
    /\ PagingInit
    /\ GateInit
    /\ BootInit
    /\ PmmReady(SchedMemoryMap)
    /\ SchedInit(0)

NextIpi ==
    \/ \E vector \in IpiVectors, destination \in IpiDestinations,
          delivery_mode \in InterruptDeliveryModes,
          destination_mode \in InterruptDestinationModes,
          trigger_mode \in InterruptTriggerModes, assert_mode \in InterruptAssertModes :
           NewInterruptCommand(vector, destination, delivery_mode, destination_mode,
                               trigger_mode, assert_mode)
    \/ send_interrupt_command

SpecIpi == InitIpi /\ [][NextIpi]_vars

(***************************************************************************)
(* Stopwatch::spin_wait against a PM timer of either width, started near   *)
(* and away from the wraparound.                                           *)
(***************************************************************************)
InitStopwatch ==
    /\ AllocInit
    /\ PagingInit
    /\ GateInit
    /\ BootInit
    /\ PmmReady(SchedMemoryMap)
    /\ SchedInit(0)

NextStopwatch ==
    \/ \E max_value \in MaxValues, duration_us \in 1..MaxDurationUs :
           \E tick_count \in {0, max_value - 1, max_value} :
               spin_wait_begin(max_value, duration_us, tick_count)
    \/ \E advance \in 0..MaxAdvance : stopwatch.reads < MaxReads /\ spin_wait_loop(advance)
    \/ spin_wait_return

SpecStopwatch == InitStopwatch /\ [][NextStopwatch]_vars

(***************************************************************************)
(* LocalTimer::set_wait in both modes, with durations up to and past the   *)
(* counter's width.                                                        *)
(***************************************************************************)
LocalTimerKinds == {"TimestampCounter", "LocalApic"}
TimerFrequencies == {1000000, 2000000, 3000000}
TscReadings == {0, 1, 7}
WaitMicros(max) == {0, 1, max \div 3, max \div 3 + 1, max, max + 1}

InitLocalTimer ==
    /\ AllocInit
    /\ PagingInit
    /\ GateInit
    /\ BootInit
    /\ PmmReady(SchedMemoryMap)
    /\ SchedInit(0)

NextLocalTimer ==
    \/ \E frequency \in TimerFrequencies, tsc \in TscReadings :
           \E duration_us \in WaitMicros(U64_MAX) :
               set_wait("TimestampCounter", frequency, tsc, duration_us)
    \/ \E frequency \in TimerFrequencies, tsc \in TscReadings :
           \E duration_us \in WaitMicros(U32_MAX) :
               set_wait("LocalApic", frequency, tsc, duration_us)

SpecLocalTimer == InitLocalTimer /\ [][NextLocalTimer]_vars

(***************************************************************************)
(* params::parse over every command line of up to MaxCmdlineLen tokens and *)
(* spaces.                                                                 *)
(***************************************************************************)
CmdlineSymbols == KnownTokens \cup {"--quiet", SPACE}

\* The strings in which spaces separate the tokens.
Cmdlines ==
    UNION {{str \in [1..n -> CmdlineSymbols] :
                \A i \in 1..(n - 1) : str[i] = SPACE \/ str[i + 1] = SPACE} :
           n \in 0..MaxCmdlineLen}

InitParams ==
    /\ AllocInit
    /\ PagingInit
    /\ GateInit
    /\ BootInit
    /\ PmmReady(SchedMemoryMap)
    /\ SchedInit(0)

NextParams ==
    \/ \E str \in Cmdlines : parse(Cmdline(str))
    \/ \E response \in {NoResponse, NotUtf8} : parse(response)

SpecParams == InitParams /\ [][NextParams]_vars

(***************************************************************************)
(* The start-up of a machine, from _entry on the bootstrap thread.         *)
(***************************************************************************)
\* A memory map with three BOOTLOADER_RECLAIMABLE entries.
BootMemoryMap ==
    <<Entry(0, 1, "RESERVED"), Entry(1, 2, "USABLE"),
      Entry(3, 1, "BOOTLOADER_RECLAIMABLE"), Entry(4, 1, "RESERVED"),
      Entry(5, 2, "BOOTLOADER_RECLAIMABLE"), Entry(7, 1, "BOOTLOADER_RECLAIMABLE")>>

\* The stacks the bootloader may give a hardware thread: one inside each
\* BOOTLOADER_RECLAIMABLE entry, or, in a map without such entries, inside
\* memory that is never reclaimed.
StackAddresses(map) ==
    LET of_type(entry_type) ==
            {map[i].base + PAGE_SIZE \div 2 :
                i \in {j \in DOMAIN map : map[j].entry_type = entry_type}}
    IN IF of_type("BOOTLOADER_RECLAIMABLE") # {}
       THEN of_type("BOOTLOADER_RECLAIMABLE")
       ELSE of_type("RESERVED")

\* The memory maps of the runs: several BOOTLOADER_RECLAIMABLE entries, one
\* entry that holds every stack, and none.
BootMemoryMaps ==
    {BootMemoryMap,
     <<Entry(0, 1, "RESERVED"), Entry(1, 2, "USABLE"), Entry(3, 2, "BOOTLOADER_RECLAIMABLE")>>,
     <<Entry(0, 1, "RESERVED"), Entry(1, 3, "USABLE")>>}

\* The machines: the number of hardware threads, whether the bootloader
\* answers the MP request, and a stack for the bootstrap thread and for each
\* secondary thread the bootloader starts.
StacksOf(map, cpus, mp_response) ==
    {s \in [Threads -> {None} \cup {Some(a) : a \in StackAddresses(map)}] :
        \A h \in Threads : (s[h] # None) <=> (h = BOOTSTRAP \/ (mp_response /\ h <= cpus))}
Machines(map) ==
    UNION {{[cpus |-> cpus, mp_response |-> mp_response, stack |-> stack] :
               stack \in StacksOf(map, cpus, mp_response)} :
           cpus \in 1..NumThreads, mp_response \in BOOLEAN}

InitStartup ==
    /\ AllocInit
    /\ PagingInit
    /\ GateInit
    /\ IcrInit
    /\ StopwatchInit
    /\ LocalTimerInit
    /\ ParamsInit
    /\ CellInit
    /\ \E map \in BootMemoryMaps : PmmReady(map) /\ machine \in Machines(map)
    /\ SchedInit(0)
    /\ boot_pc = [h \in Threads |-> IF h = BOOTSTRAP THEN "entry" ELSE "none"]
    /\ sync = Sync_new
    /\ bsp = Bsp_new
    /\ barrier_gen = [h \in Threads |-> 0]
    /\ hw = [h \in Threads |-> HardwareThread_new]
    /\ reclaimed = {}

\* The steps of the bootstrap thread alone, and of any thread.
BootstrapCmdlines == {Cmdline(<<>>), Cmdline(<<"--nomp">>)}

NextStartup ==
    \/ \E response \in BootstrapCmdlines : kernel_entry(response)
    \/ begin_multiprocessing
    \/ call_once_barriers
    \/ reclaim_next
    \/ consult
    \/ free_entry
    \/ \E h \in Threads : Barrier_wait_arrive(h)
    \/ \E h \in Threads : Barrier_wait_pass(h)
    \/ \E h \in Threads : mp_entry(h)
    \/ \E h \in Threads : idle_forever(h)
    \/ \E h \in Threads : once_wait(h)
    \/ \E h \in Threads : check_entry(h)
    \/ \E h \in Threads : load_tss(h)
    \/ \E h \in Threads : x2Apic_reset(h)
    \/ \E h \in Threads : x2Apic_set_enabled(h)
    \/ \E h \in Threads : LocalState_init(h)
    \/ \E h \in Threads : breakpoint(h)

SpecStartup == InitStartup /\ [][NextStartup]_vars

\* Every hardware thread runs: a thread that can take a step takes one.
ThreadStep(h) ==
    \/ /\ h = BOOTSTRAP
       /\ \/ \E response \in BootstrapCmdlines : kernel_entry(response)
          \/ begin_multiprocessing
          \/ call_once_barriers
          \/ reclaim_next
          \/ consult
          \/ free_entry
    \/ Barrier_wait_arrive(h)
    \/ Barrier_wait_pass(h)
    \/ mp_entry(h)
    \/ idle_forever(h)
    \/ once_wait(h)
    \/ check_entry(h)
    \/ load_tss(h)
    \/ x2Apic_reset(h)
    \/ x2Apic_set_enabled(h)
    \/ LocalState_init(h)
    \/ breakpoint(h)

SpecStartupFair == SpecStartup /\ \A h \in Threads : WF_vars(ThreadStep(h))

(***************************************************************************)
(* Panics next to the scheduler: arch/x86_64/structures/idt/stubs.rs,      *)
(* panic/mod.rs.                                                           *)
(***************************************************************************)
\* __irq_handler entered with a vector other than Timer and Syscall:
\* unimplemented!() panics, and the panic handler halts the thread in
\* halt_and_catch_fire. No scheduler operation has begun.
unsupported_vector(h) ==
    /\ UNCHANGED not_sched_vars
    /\ pc[h] = "run"
    /\ pc' = [pc EXCEPT ![h] = "panicked"]
    /\ UNCHANGED <<PROCESSES, PROCESSES_lock, task, isf, regs, cr3,
                   preemption_wait, fires, steps, syscalls, snapshot, dead, tasks>>

\* The Syscall arm of __irq_handler entered while the thread's slot is empty:
\* neither the handler nor syscall::process looks at the slot before it calls
\* yield_task or kill_task.
syscall_without_task(h, vector) ==
    /\ UNCHANGED not_sched_vars
    /\ pc[h] = "run"
    /\ task[h] = None
    /\ pc' = [pc EXCEPT ![h] = IF vector = "TaskYield" THEN "yield_task_lock"
                                                       ELSE "kill_task"]
    /\ syscalls' = syscalls + 1
    /\ UNCHANGED <<PROCESSES, PROCESSES_lock, task, isf, regs, cr3,
                   preemption_wait, fires, steps, snapshot, dead, tasks>>

\* One interrupt or syscall in all is enough for a panic and for another
\* thread's attempt at the mutex after it; at most two tasks are loaded.
InitPanic ==
    /\ AllocInit
    /\ PagingInit
    /\ GateInit
    /\ BootInit
    /\ PmmReady(SchedMemoryMap)
    /\ \E n \in {0, 1, 2} : SchedInit(n)

NextPanic ==
    \E h \in Threads :
        \/ fires + syscalls < MaxSyscalls /\ TimerIrq(h)
        \/ interrupt_task_lock(h)
        \/ interrupt_task(h)
        \/ \E vector \in {"TaskYield", "TaskExit"} :
               fires + syscalls < MaxSyscalls /\ Syscall(h, vector)
        \/ yield_task_lock(h)
        \/ yield_task(h)
        \/ kill_task(h)
        \/ kill_task_lock(h)
        \/ kill_task_next(h)
        \/ unsupported_vector(h)
        \/ \E vector \in {"TaskYield", "TaskExit"} :
               fires + syscalls < MaxSyscalls /\ syscall_without_task(h, vector)

SpecPanic == InitPanic /\ [][NextPanic]_vars

(***************************************************************************)
(* __irq_handler: arch/x86_64/structures/idt/stubs.rs.                     *)
(***************************************************************************)
\* Vector::from(irq_number): the numbers the enum names, Unknown otherwise.
Vector_from(irq_number) ==
    CASE irq_number = 32 -> "Watchdog"
      [] irq_number = 33 -> "Timer"
      [] irq_number = 34 -> "Error"
      [] irq_number = 35 -> "PerformanceCounter"
      [] irq_number = 36 -> "ThermalSensor"
      [] irq_number = 37 -> "CMCI"
      [] irq_number = 38 -> "External"
      [] irq_number = 128 -> "Syscall"
      [] irq_number = 255 -> "Spurious"
      [] OTHER -> "Unknown"

\* The values of rax at a syscall: three of the vectors syscall::process
\* knows and one it does not.
SyscallVectors == {"KlogInfo", "TaskExit", "TaskYield", "InvalidVector"}

\* What __irq_handler does, in order, for the number its stub passes, the
\* syscall vector in rax and the state of the scheduler's slot.
irq_handler_steps(irq_number, rax, has_task) ==
    CASE Vector_from(irq_number) = "Timer" ->
             <<"interrupt_task", "end_of_interrupt", "return">>
      [] Vector_from(irq_number) = "Syscall" ->
             IF rax \in {"TaskExit", "TaskYield"} /\ ~has_task
             THEN <<"process", "panic">>
             ELSE <<"process", "into_registers", "end_of_interrupt", "return">>
      [] OTHER -> <<"unimplemented", "panic">>

\* The stub of the delivered vector calls __irq_handler.
irq_handler(rax, has_task) ==
    /\ delivery.outcome = "stub"
    /\ delivery.stub = "__irq_stub"
    /\ delivery.handled = <<>>
    /\ delivery' = [delivery EXCEPT !.handled = irq_handler_steps(delivery.irq_number, rax, has_task)]
    /\ UNCHANGED <<klog_call, idt>>
    /\ UNCHANGED <<sched_vars, pmm_vars, alloc_vars, paging_vars, boot_vars>>

NextIrq ==
    \/ InterruptDescriptorTable_init
    \/ \E vector \in 0..255, source \in InterruptSources :
           delivery.source = "none" /\ Deliver(vector, source)
    \/ \E rax \in SyscallVectors, has_task \in BOOLEAN : irq_handler(rax, has_task)

SpecIrq == InitIdt /\ [][NextIrq]_vars

(***************************************************************************)
(* The scheduler entered through the interrupt gates.                      *)
(***************************************************************************)
\* Every thread has finished its start-up as intended: it idles in
\* wait_indefinite with interrupts enabled.
InitInterruptCell ==
    /\ AllocInit
    /\ PagingInit
    /\ GateInit
    /\ IcrInit
    /\ StopwatchInit
    /\ LocalTimerInit
    /\ ParamsInit
    /\ CellInit
    /\ PmmReady(SchedMemoryMap)
    /\ \E n \in 0..MaxLoaded : SchedInit(n)
    /\ machine = [cpus |-> 0, mp_response |-> FALSE, stack |-> [h \in Threads |-> None]]
    /\ boot_pc = [h \in Threads |-> "none"]
    /\ sync = Sync_new
    /\ bsp = Bsp_new
    /\ barrier_gen = [h \in Threads |-> 0]
    /\ hw = [h \in Threads |-> [HardwareThread_new EXCEPT !.interrupts_enabled = TRUE]]
    /\ reclaimed = {}

NextInterruptCell ==
    \E h \in Threads :
        \/ \E op \in {"interrupt_task", "yield_task", "kill_task"} :
               fires + syscalls < MaxFires /\ irq_gate(h, op)
        \/ uninterruptable_begin(h)
        \/ interrupt_task_lock(h)
        \/ interrupt_task(h)
        \/ yield_task_lock(h)
        \/ yield_task(h)
        \/ kill_task(h)
        \/ kill_task_lock(h)
        \/ kill_task_next(h)
        \/ uninterruptable_end(h)
        \/ irq_return(h)

SpecInterruptCell == InitInterruptCell /\ [][NextInterruptCell]_vars

(***************************************************************************)
(* Properties of the scheduler.                                            *)
(***************************************************************************)
\* The ids of the tasks in the run queue, front first.
QueueIds == [i \in 1..Len(PROCESSES) |-> PROCESSES[i].id]

\* The tasks 1..n other than t, in cyclic order starting after t.
CyclicAfter(t, n) == [i \in 1..(n - 1) |-> ((t + i - 1) % n) + 1]

\* C1: round-robin order. On one hardware thread that starts with the run
\* queue [T1..TN] and no running task, and with no yields or exits, the k-th
\* timer interrupt (k >= 1) leaves task ((k-1) mod N)+1 in the running slot
\* and the other tasks in the queue in cyclic insertion order.
C1_RoundRobinOrder ==
    fires >= 1 =>
        LET n == Cardinality(tasks)
            t == ((fires - 1) % n) + 1
        IN /\ task[1] # None
           /\ unwrap(task[1]).id = t
           /\ QueueIds = CyclicAfter(t, n)

\* The run queue [A, B, C] after the fourth timer interrupt: A runs again and
\* the queue is [B, C].
C1_Witness ==
    /\ tasks = 1..3
    /\ fires = 4
    /\ pc[1] = "run"
    /\ task[1] # None
    /\ unwrap(task[1]).id = 1
    /\ QueueIds = <<2, 3>>

\* C2: context preservation. Under timer preemption only, when
\* interrupt_task places a task that was preempted before in the running
\* slot, the frame and the registers it writes to the ISR frame are the ones
\* captured from the ISR frame when that task was preempted.
C2_ContextPreserved ==
    [][\A h \in Threads :
          (/\ pc[h] = "interrupt_task"
           /\ pc'[h] = "run"
           /\ task'[h] # None
           /\ snapshot'[unwrap(task'[h]).id] # None)
          => /\ isf'[h] = unwrap(snapshot'[unwrap(task'[h]).id])[1]
             /\ regs'[h] = unwrap(snapshot'[unwrap(task'[h]).id])[2]]_vars

\* A task that changed its registers, was preempted and runs again with the
\* context of the preemption point.
C2_Witness ==
    \E h \in Threads :
        /\ pc[h] = "run"
        /\ task[h] # None
        /\ snapshot[unwrap(task[h]).id] # None
        /\ isf[h] = unwrap(snapshot[unwrap(task[h]).id])[1]
        /\ regs[h] = unwrap(snapshot[unwrap(task[h]).id])[2]
        /\ regs[h] # InitialRegisters(unwrap(task[h]).id)
        /\ isf[h] # InitialFrame(unwrap(task[h]).id)

\* How often task t occurs in the run queue and in the running slots.
Occurrences(t) ==
    Cardinality({i \in 1..Len(PROCESSES) : PROCESSES[i].id = t})
    + Cardinality({h \in Threads : task[h] # None /\ unwrap(task[h]).id = t})

\* Where task t is: 0 in the run queue, h in the running slot of thread h,
\* -1 when it is nowhere.
Place(t) ==
    IF \E i \in 1..Len(PROCESSES) : PROCESSES[i].id = t THEN 0
    ELSE IF \E h \in Threads : task[h] # None /\ unwrap(task[h]).id = t
         THEN CHOOSE h \in Threads : task[h] # None /\ unwrap(task[h]).id = t
         ELSE -1

TaskMoveAllowed(from, to) ==
    \/ to = from
    \/ from = 0 /\ to > 0
    \/ from > 0 /\ to = 0
    \/ from > 0 /\ to = -1

\* C3: task state machine. Under any interleaving of interrupt_task,
\* yield_task and kill_task on the hardware threads, every live task is in
\* exactly one place (once in the run queue or in one running slot), a task
\* only moves queue -> running slot -> queue or -> dead, and a task removed
\* by kill_task is in no queue and no running slot ever again.
C3_TaskStateMachine ==
    /\ [](\A t \in tasks : Occurrences(t) = IF t \in dead THEN 0 ELSE 1)
    /\ [][/\ \A t \in tasks : TaskMoveAllowed(Place(t), Place(t)')
          /\ dead \subseteq dead'
          /\ \A t \in tasks : (Place(t) > 0 /\ Place(t)' = -1) <=> (t \in dead' \ dead)]_vars

\* One task was killed while another is still scheduled.
C3_Witness ==
    /\ dead # {}
    /\ fires >= 2
    /\ \A h \in Threads : pc[h] = "run"
    /\ \E h \in Threads : task[h] # None /\ unwrap(task[h]).id \notin dead

\* C4: idle fallback. A timer interrupt handled with the run queue empty and
\* no task running leaves the ISR frame with the instruction pointer at
\* wait_indefinite, the stack pointer at the top of this thread's idle stack
\* and every general register zero, leaves the running slot empty, and arms
\* one preemption wait of 15 ms.
C4_IdleFallback ==
    [][\A h \in Threads :
          (/\ pc[h] = "interrupt_task"
           /\ pc'[h] = "run"
           /\ PROCESSES = <<>>
           /\ task[h] = None)
          => /\ isf'[h].instruction_pointer = WAIT_INDEFINITE
             /\ isf'[h].stack_pointer = idle_stack(h) + IDLE_STACK_SIZE
             /\ \A r \in RegNames : regs'[h][r] = 0
             /\ task'[h] = None
             /\ preemption_wait'[h] = <<15>>]_vars

\* A thread that took a timer interrupt with nothing to run and is back in the
\* wait loop on its idle stack.
C4_Witness ==
    \E h \in Threads :
        /\ tasks = {}
        /\ fires >= 1
        /\ pc[h] = "run"
        /\ task[h] = None
        /\ isf[h].instruction_pointer = WAIT_INDEFINITE
        /\ isf[h].stack_pointer = idle_stack(h) + IDLE_STACK_SIZE
        /\ regs[h] = Registers_empty
        /\ preemption_wait[h] = <<15>>

(***************************************************************************)
(* Properties of the physical memory manager.                              *)
(***************************************************************************)
ClearBits(bits) == {i \in DOMAIN bits : ~bits[i]}
Lowest(S) == CHOOSE i \in S : \A j \in S : i <= j
FramesOf(entry) ==
    {f \in DOMAIN table : entry.base <= f * PAGE_SIZE /\ f * PAGE_SIZE < entry.base + entry.length}

\* C5: in every state reached by lock_frame, free_frame, next_frame and
\* next_frames calls of any threads, the number of set bits is the number set
\* at construction plus the frames locked by successful calls minus the
\* successful frees, and every bit at an index >= total_frames has the value
\* construction gave it.
C5_BitmapConservation ==
    pmm_state = "ready" =>
        /\ PopCount(table) = PopCount(table0) + net_locked
        /\ \A i \in DOMAIN table : i >= total_frames => table[i] = table0[i]

\* C6: bitmap mutations exclude each other: a lock_frame that returns Ok marks
\* a frame that is free at that moment, and a free_frame that returns Ok clears
\* a frame that is locked at that moment, so of two concurrent calls on the
\* same frame only one returns Ok.
C6_ExclusiveLockFree ==
    [][\A h \in Threads :
          /\ lock_frame_set(h) => ~table[Address_index(pmm_arg[h])]
          /\ free_frame_clear(h) => table[Address_index(pmm_arg[h])]]_vars

\* C7: next_frame returns the frame of the lowest clear bit, which lies below
\* total_frames, and sets that bit and no other; without a clear bit it
\* returns NoneFree and leaves the bitmap as it is.
C7_NextFrame ==
    [][\A h \in Threads :
          (pmm_ret'.op = "next_frame" /\ pmm_pc' = pmm_pc /\ next_frame(h)) =>
              IF ClearBits(table) # {}
              THEN LET lowest == Lowest(ClearBits(table)) IN
                       /\ lowest < total_frames
                       /\ pmm_ret' = Return("next_frame", <<>>, "Ok", lowest * PAGE_SIZE)
                       /\ table' = [i \in DOMAIN table |-> (i = lowest) \/ table[i]]
              ELSE /\ pmm_ret' = Return("next_frame", <<>>, "NoneFree", 0)
                   /\ table' = table]_vars

\* next_frame has returned a frame above frame 0 while a further frame is free.
C7_Witness ==
    /\ pmm_ret.op = "next_frame"
    /\ pmm_ret.result = "Ok"
    /\ pmm_ret.value > 0
    /\ table[Address_index(pmm_ret.value)]
    /\ \E i \in DOMAIN table : i > Address_index(pmm_ret.value) /\ ~table[i]

\* The starts of the runs of count clear bits at multiples of the stride.
AlignedFreeRuns(count, stride) ==
    {i \in DOMAIN table : /\ i % stride = 0
                          /\ \A j \in i..(i + count - 1) : j \in DOMAIN table /\ ~table[j]}

\* C8: next_frames(count, align_bits) returns the lowest start that is a
\* multiple of the stride max(1, align_bits >> page_shift) with count clear
\* bits from it, and sets those count bits and no other; without such a run it
\* returns NoneFree and leaves the bitmap as it is.
C8_NextFrames ==
    [][\A h \in Threads, count \in 1..MaxCount, align_bits \in AlignArgs :
          (pmm_ret'.args = <<count, align_bits>> /\ pmm_pc' = pmm_pc /\ next_frames(h, count, align_bits)) =>
              LET shifted == IF align_bits = None THEN 0 ELSE unwrap(align_bits) \div PAGE_SIZE
                  stride == IF shifted >= 1 THEN shifted ELSE 1
                  runs == AlignedFreeRuns(count, stride)
              IN IF runs # {}
                 THEN LET lowest == Lowest(runs) IN
                          /\ pmm_ret' = Return("next_frames", <<count, align_bits>>, "Ok", lowest * PAGE_SIZE)
                          /\ table' = [i \in DOMAIN table |->
                                          (lowest <= i /\ i < lowest + count) \/ table[i]]
                 ELSE /\ pmm_ret' = Return("next_frames", <<count, align_bits>>, "NoneFree", 0)
                      /\ table' = table]_vars

\* next_frames has returned a run that starts right after a frame that is
\* still free: the stride made it pass over a lower run.
C8_Witness ==
    /\ pmm_ret.op = "next_frames"
    /\ pmm_ret.result = "Ok"
    /\ Address_index(pmm_ret.value) >= 1
    /\ ~table[Address_index(pmm_ret.value) - 1]
    /\ table[Address_index(pmm_ret.value)]
    /\ table[Address_index(pmm_ret.value) + 1]

\* C9: lock_frame fails with OutOfBounds at an index >= total_frames and with
\* NotFree on a locked frame, free_frame fails with OutOfBounds at an index
\* >= total_frames and with NotLocked on a free frame; a failure leaves the
\* bitmap as it is and a success changes the addressed bit and no other.
C9_LockFreeResults ==
    [][\A h \in Threads :
          /\ \A address \in FrameArgs :
                 /\ lock_frame_check(h, address) =>
                        /\ table' = table
                        /\ Address_index(address) >= total_frames =>
                               pmm_ret' = Return("lock_frame", <<address>>, "OutOfBounds", address)
                        /\ Address_index(address) < total_frames /\ table[Address_index(address)] =>
                               pmm_ret' = Return("lock_frame", <<address>>, "NotFree", address)
                 /\ free_frame_check(h, address) =>
                        /\ table' = table
                        /\ Address_index(address) >= total_frames =>
                               pmm_ret' = Return("free_frame", <<address>>, "OutOfBounds", address)
                        /\ Address_index(address) < total_frames /\ ~table[Address_index(address)] =>
                               pmm_ret' = Return("free_frame", <<address>>, "NotLocked", address)
          /\ lock_frame_set(h) \/ free_frame_clear(h) =>
                 /\ pmm_ret'.result = "Ok"
                 /\ \A i \in DOMAIN table :
                        (table'[i] # table[i]) <=> (i = Address_index(pmm_arg[h]))]_vars

\* C10: right after construction from a sorted, page-aligned memory map with
\* a USABLE entry that fits the table, every bit at an index >= total_frames
\* is set, every frame of a non-USABLE entry is set, every frame that holds
\* the table is set, and every frame between two consecutive entries is set.
C10_Constructed ==
    pmm_state = "ready" /\ pmm_calls = 0 =>
        /\ \A i \in DOMAIN table : i >= total_frames => table[i]
        /\ \A e \in 1..Len(memory_map) :
               memory_map[e].entry_type # "USABLE" => \A f \in FramesOf(memory_map[e]) : table[f]
        /\ \A f \in DOMAIN table :
               /\ select_region(memory_map).start <= f * PAGE_SIZE
               /\ f * PAGE_SIZE < select_region(memory_map).end
               => table[f]
        /\ \A e \in 1..(Len(memory_map) - 1) :
               \A f \in DOMAIN table :
                   /\ memory_map[e].base + memory_map[e].length <= f * PAGE_SIZE
                   /\ f * PAGE_SIZE < memory_map[e + 1].base
                   => table[f]

\* The manager is constructed from a map with a non-USABLE entry, space between
\* two entries, and a frame that stays free.
C10_Witness ==
    /\ pmm_state = "ready"
    /\ pmm_calls = 0
    /\ \E e \in 1..Len(memory_map) : memory_map[e].entry_type # "USABLE"
    /\ \E e \in 1..(Len(memory_map) - 1) :
           memory_map[e].base + memory_map[e].length < memory_map[e + 1].base
    /\ \E f \in DOMAIN table : f < total_frames /\ ~table[f]

(***************************************************************************)
(* Properties of the kernel allocator and the direct map.                  *)
(***************************************************************************)
\* C11: for every Layout with an alignment of at most a page and every table
\* in which allocate succeeds, the deallocate of the allocation with the same
\* Layout returns and leaves the frame table as it was before the allocation,
\* also when the allocation is frame 0.
C11_AllocatorRoundTrip ==
    [][KernelAllocator_deallocate => (alloc_pc' = "idle" /\ table' = alloc_before)]_vars

\* C12: offset and negative_offset are inverse for every physical address whose
\* sum with the base does not overflow, and a conversion, typed or not, panics
\* exactly when its addition overflows or its subtraction underflows and
\* otherwise returns the exact sum or difference, never a wrapped or truncated
\* address.
C12_HhdmInverse ==
    LET op == hhdm_call.op
        address == hhdm_call.address
        additive == op \in {"offset", "physical_to_virtual", "frame_to_page"}
        subtractive == op \in {"negative_offset", "virtual_to_physical", "page_to_frame"}
    IN /\ additive =>
              /\ (hhdm_call.result = None) <=> (hhdm_base + address >= USIZE_MODULUS)
              /\ hhdm_call.result # None => unwrap(hhdm_call.result) = hhdm_base + address
       /\ subtractive =>
              /\ (hhdm_call.result = None) <=> (address < hhdm_base)
              /\ hhdm_call.result # None => unwrap(hhdm_call.result) = address - hhdm_base
       /\ op = "offset" /\ hhdm_call.result # None =>
              HigherHalfDirectMap_negative_offset(hhdm_base, unwrap(hhdm_call.result)) = Some(address)


(***************************************************************************)
(* Properties of the Mapper and of the AddressSpace.                       *)
(***************************************************************************)
\* What the claims about a successful map ask of the state the call leaves.
MappedAsAsked(call) ==
    /\ Mapper_is_mapped(frame_memory, kernel_root, call.page, call.depth)
    /\ Mapper_get_mapped_to(frame_memory, kernel_root, call.page) = Some(call.frame)
    /\ Mapper_get_page_attributes(frame_memory, kernel_root, call.page) # None
    /\ call.attributes \subseteq
           unwrap(Mapper_get_page_attributes(frame_memory, kernel_root, call.page))

UnmappedAsAsked(call) ==
    (call.op = "unmap" /\ call.result = "Ok" /\ call.depth # None)
        => ~Mapper_is_mapped(frame_memory, kernel_root, call.page, call.depth)

\* C13, as stated: after a successful map(P, d, F, _, flags) with PRESENT in
\* flags, is_mapped(P, d) holds, get_mapped_to(P) is Some(F) and
\* get_page_attributes(P) contains flags, whatever the depth and the flags;
\* after a successful unmap(P, d, _), is_mapped(P, d) is false.
C13_MapperRoundTrip_AsStated ==
    /\ (mapper_call.op = "map" /\ mapper_call.result = "Ok"
            /\ "PRESENT" \in mapper_call.attributes)
        => MappedAsAsked(mapper_call)
    /\ UnmappedAsAsked(mapper_call)

\* C13, amended: the same, for flags that contain PRESENT and, when the depth
\* is above the leaf depth, HUGE.
C13_MapperRoundTrip ==
    /\ (mapper_call.op = "map" /\ mapper_call.result = "Ok"
            /\ "PRESENT" \in mapper_call.attributes
            /\ (unwrap(mapper_call.depth) > TableDepth_min => "HUGE" \in mapper_call.attributes))
        => MappedAsAsked(mapper_call)
    /\ UnmappedAsAsked(mapper_call)

\* A huge page the kernel mapped with PRESENT and HUGE is unmapped at the
\* depth it was mapped at.
C13_Witness ==
    /\ mapper_call.op = "unmap"
    /\ mapper_call.result = "Ok"
    /\ mapper_call.depth = Some(TableDepth_mega)
    /\ Mapper_get_page_attributes(memory_before, kernel_root, mapper_call.page)
           = Some(TableEntryFlags_RW \cup {"HUGE"})


\* The 4 KiB-aligned offsets inside one mega page.
MegaOffsets == {index * PAGE_SIZE : index \in 0..(TABLE_INDEX_SIZE - 1)}

\* C14: after a mega-aligned page V is mapped to frame F at the mega depth with
\* RW and HUGE, get_mapped_to(V + o) is Some(F + o) and
\* get_page_attributes(V + o) contains PRESENT, WRITE and HUGE, for every
\* 4 KiB-aligned offset o inside the mega page.
C14_HugeTranslation ==
    (/\ mapper_call.op = "map"
     /\ mapper_call.result = "Ok"
     /\ mapper_call.depth = Some(TableDepth_mega)
     /\ mapper_call.attributes = TableEntryFlags_RW \cup {"HUGE"}
     /\ mapper_call.page % MEGA_SIZE = 0)
    => \A offset \in MegaOffsets :
        /\ Mapper_get_mapped_to(frame_memory, kernel_root, mapper_call.page + offset)
               = Some(mapper_call.frame + offset)
        /\ Mapper_get_page_attributes(frame_memory, kernel_root, mapper_call.page + offset)
               # None
        /\ {"PRESENT", "WRITE", "HUGE"} \subseteq
               unwrap(Mapper_get_page_attributes(frame_memory, kernel_root,
                                                 mapper_call.page + offset))


\* The pages of the range of the last call.
RangeOf(call) == {call.page + index * PAGE_SIZE : index \in 0..(call.count - 1)}

\* The pages the claims about an AddressSpace look at.
WatchedPages == UNION {{address + index * PAGE_SIZE : index \in 0..(MaxPageCount - 1)} :
                          address \in UserAddresses}

\* C15: mmap with an explicit address maps exactly the pages of the range, each
\* to a frame that was free, with PRESENT, USER and the permission flags; when a
\* page of the range is already mapped it fails and leaves every mapping and
\* the frame table as they were.
C15_MmapExact ==
    mapper_call.op = "mmap" =>
        LET root == unwrap(user_root)
            range == RangeOf(mapper_call)
            already == \E page \in range : Mapper_is_mapped(memory_before, root, page, None)
        IN /\ already =>
                /\ mapper_call.result # "Ok"
                /\ table = table_before
                /\ \A page \in WatchedPages :
                       /\ Mapper_get_mapped_to(frame_memory, root, page)
                              = Mapper_get_mapped_to(memory_before, root, page)
                       /\ Mapper_get_page_attributes(frame_memory, root, page)
                              = Mapper_get_page_attributes(memory_before, root, page)
           /\ mapper_call.result = "Ok" =>
                /\ \A page \in range :
                       /\ Mapper_get_mapped_to(frame_memory, root, page) # None
                       /\ ~table_before[Address_index(
                               unwrap(Mapper_get_mapped_to(frame_memory, root, page)))]
                       /\ Mapper_get_page_attributes(frame_memory, root, page)
                              = Some(mapper_call.attributes)
                /\ \A page \in WatchedPages \ range :
                       Mapper_get_mapped_to(frame_memory, root, page)
                           = Mapper_get_mapped_to(memory_before, root, page)

\* The indices of the upper half of a root table.
UpperHalf == (TABLE_INDEX_SIZE \div 2)..(TABLE_INDEX_SIZE - 1)

\* C16: right after AddressSpace::new_userspace returns, every upper-half entry
\* of the new root table equals the same entry of the kernel's root table, and
\* the new root frame is a frame the manager held free, other than the kernel's
\* root frame.
C16_KernelHalfIdentity ==
    (mapper_call.op = "new_userspace" /\ mapper_call.result = "Ok") =>
        /\ user_root # None
        /\ \A index \in UpperHalf :
               frame_memory[Address_index(unwrap(user_root))][index]
                   = frame_memory[Address_index(kernel_root)][index]
        /\ unwrap(user_root) # kernel_root
        /\ ~table_before[Address_index(unwrap(user_root))]
        /\ table[Address_index(unwrap(user_root))]

\* An AddressSpace is constructed when the kernel has mapped a page of the
\* upper half.
C16_Witness ==
    /\ mapper_call.op = "new_userspace"
    /\ mapper_call.result = "Ok"
    /\ \E index \in UpperHalf : is_present(frame_memory[Address_index(kernel_root)][index])

\* The frames of the tables below an entry of a table of a depth.
RECURSIVE tables_below(_, _, _)
tables_below(memory, entry, depth) ==
    IF depth = TableDepth_min \/ ~is_present(entry) \/ is_huge(entry)
    THEN {}
    ELSE {get_frame(entry)} \cup
         UNION {tables_below(memory, memory[Address_index(get_frame(entry))][index], depth - 1) :
                   index \in 0..(TABLE_INDEX_SIZE - 1)}

\* The tables of the kernel half: those below the upper half of the kernel's
\* root table.
KernelTables(memory) ==
    UNION {tables_below(memory, memory[Address_index(kernel_root)][index], TableDepth_max) :
              index \in UpperHalf}

\* C17: mmap with an explicit address and set_flags on a user AddressSpace
\* change no entry of the kernel half, and a range that lies in or reaches
\* into the upper half is rejected.
C17_KernelHalfUntouched ==
    mapper_call.op \in {"mmap", "set_flags"} =>
        /\ \A index \in UpperHalf :
               frame_memory[Address_index(kernel_root)][index]
                   = memory_before[Address_index(kernel_root)][index]
        /\ \A frame \in KernelTables(memory_before) :
               frame_memory[Address_index(frame)] = memory_before[Address_index(frame)]
        /\ (\E page \in RangeOf(mapper_call) : page >= HHDM_OFFSET)
               => mapper_call.result # "Ok"


(***************************************************************************)
(* Properties of the syscall gate and of the InterruptDescriptorTable.     *)
(***************************************************************************)
\* The pages that intersect the buffer [ptr, ptr + len).
PagesOf(ptr, len) ==
    {align_down(address, PAGE_SHIFT) : address \in ptr..(ptr + len - 1)}

\* C18: when a Klog syscall of a running task reads its buffer of len > 0
\* bytes, demand_map was called before for every page that intersects
\* [ptr, ptr + len), the last page of a buffer that starts off a page boundary
\* and crosses one included.
C18_KlogDemandMapsBuffer ==
    (klog_call.read /\ klog_call.len > 0) =>
        PagesOf(klog_call.ptr, klog_call.len) \subseteq
            {align_down(klog_call.demand_mapped[index], PAGE_SHIFT) :
                 index \in DOMAIN klog_call.demand_mapped}

\* C19: in the loaded table the entry of vector 128 is present with privilege
\* level 3, and every other present entry has privilege level 0.
C19_SyscallVectorPrivilege ==
    idt # <<>> =>
        /\ idt[128].present
        /\ idt[128].privilege_level = Ring3
        /\ \A vector \in 0..255 \ {128} :
               idt[vector].present => idt[vector].privilege_level = Ring0

\* The vectors with a present entry.
PresentVectors == {vector \in 0..255 : idt[vector].present}

\* C20, as stated: after init exactly the vectors 0 to 19, 21, 28 to 30 and 32
\* to 255 have present entries, and 9, 15, 22 to 27 and 31 are absent.
C20_IdtCoverage_AsStated ==
    idt # <<>> =>
        /\ PresentVectors = (0..19) \cup {21} \cup (28..30) \cup (32..255)
        /\ \A vector \in {9, 15} \cup (22..27) \cup {31} : ~idt[vector].present

\* C20, amended: after init exactly the vectors 0 to 8, 10 to 14, 16 to 20 and
\* 32 to 255 have present entries, and 9, 15 and 21 to 31 are absent.
C20_IdtCoverage ==
    idt # <<>> =>
        /\ PresentVectors = (0..8) \cup (10..14) \cup (16..20) \cup (32..255)
        /\ \A vector \in {9, 15} \cup (21..31) : ~idt[vector].present

\* The processor finds no handler for the control-protection exception in the
\* table init built.
C20_Witness ==
    /\ idt # <<>>
    /\ delivery.source = "hardware"
    /\ delivery.vector = 21
    /\ delivery.outcome = "#NP"

C22_StopwatchWait ==
    /\ stopwatch.pc = "returned" =>
           (stopwatch.real_ticks + 1) * 1000000 >= stopwatch.duration_us * PM_TIMER_FREQUENCY
    /\ stopwatch.accounted_ticks <= stopwatch.real_ticks

\* The tick count of a duration on a timer of the given frequency.
TickCount(frequency, duration_us) == (frequency \div 1000000) * duration_us

\* C23: set_wait(duration) arms the next timer interrupt at now + duration:
\* in TSC-deadline mode the deadline register holds the current timestamp
\* counter plus the tick count of the duration, in LAPIC one-shot mode the
\* initial count is that tick count; if the tick count overflows the counter
\* width the result is InvalidWait and no register is written.
C23_SetWaitArms ==
    local_timer.kind # "none" =>
        LET ticks == TickCount(local_timer.frequency, local_timer.duration_us)
            max == IF local_timer.kind = "TimestampCounter" THEN U64_MAX ELSE U32_MAX
        IN  IF ticks > max
            THEN /\ local_timer.result = "InvalidWait"
                 /\ local_timer.registers = TimerRegisters_unwritten
            ELSE /\ local_timer.result = "Ok"
                 /\ local_timer.kind = "TimestampCounter" =>
                        local_timer.registers.IA32_TSC_DEADLINE
                            = Some(local_timer.tsc + ticks)
                 /\ local_timer.kind = "LocalApic" =>
                        local_timer.registers.TIMER_INITIAL_COUNT = Some(ticks)

(***************************************************************************)
(* Properties of the kernel parameters.                                    *)
(***************************************************************************)
\* The whitespace-separated tokens of a command line.
TokensOf(str) == {str[i] : i \in DOMAIN str} \ {SPACE}

\* C29: for every command line of whitespace-separated tokens, each known
\* token sets its parameter whatever other tokens are present, and unknown
\* tokens change no parameter.
C29_CmdlinePerToken ==
    (params.set /\ params.response.kind = "Ok") =>
        LET tokens == TokensOf(params.response.cmdline)
        IN  /\ params.parameters.use_multiprocessing = ("--nomp" \notin tokens)
            /\ params.parameters.keep_symbol_info = TRUE
            /\ params.parameters.low_memory_mode = ("--lomem" \in tokens)

\* The BOOTLOADER_RECLAIMABLE entries, the frames of an entry, and whether
\* an entry holds the stack of a hardware thread.
ReclaimableEntries ==
    {i \in DOMAIN memory_map : memory_map[i].entry_type = "BOOTLOADER_RECLAIMABLE"}
EntryFrames(i) ==
    Address_index(memory_map[i].base)
        ..(Address_index(memory_map[i].base + memory_map[i].length) - 1)
HoldsStack(i, h) ==
    /\ machine.stack[h] # None
    /\ check_range_contains_stack(entry_range(memory_map[i]), unwrap(machine.stack[h]))

\* The places of a thread past the reclaim barrier.
AfterBarrier == {"load_tss", "lic_reset", "lic_enable", "local_state", "breakpoint", "wait_indefinite"}

\* C24: the reclaim procedure never frees a frame of a BOOTLOADER_RECLAIMABLE
\* entry that holds the stack of any hardware thread, bootstrap or secondary.
C24_ReclaimSafety ==
    \A i \in ReclaimableEntries, h \in Threads :
        HoldsStack(i, h) => EntryFrames(i) \cap reclaimed = {}

\* C25: once the bootstrap thread is past the reclaim barrier, every frame of
\* every BOOTLOADER_RECLAIMABLE entry that holds no thread's stack is free,
\* with or without secondary threads at the barrier, and the frames of the
\* entry that holds the bootstrap stack are locked.
C25_ReclaimComplete ==
    boot_pc[BOOTSTRAP] \in AfterBarrier =>
        \A i \in ReclaimableEntries :
            /\ (\A h \in Threads : ~HoldsStack(i, h)) => \A f \in EntryFrames(i) : ~table[f]
            /\ HoldsStack(i, BOOTSTRAP) => \A f \in EntryFrames(i) : table[f]

\* The steps the specification lists after the barrier, in order.
StartupOrder == <<"load_tss", "lic_reset", "lic_enable", "local_state", "enable_interrupts">>
IsListedStep(step) == step # "breakpoint"

\* C26: every hardware thread that leaves the reclaim barrier eventually
\* reaches the indefinite wait having loaded its TSS, reset and enabled its
\* local interrupt controller, initialised its Local State and enabled
\* interrupts, in that order, without a fatal exception or panic.
C26_StartupCompletes ==
    \A h \in Threads :
        (boot_pc[h] = "load_tss") ~>
            (/\ boot_pc[h] = "wait_indefinite"
             /\ ~hw[h].panicked
             /\ hw[h].interrupts_enabled
             /\ SelectSeq(hw[h].steps, IsListedStep) = StartupOrder)

\* C27: with --nomp on a machine that reports more than one hardware thread
\* the bootstrap thread finishes the reclaim procedure and goes on with its
\* start-up; it does not wait forever at a barrier.
C27_NoMpBootstrapProceeds ==
    (/\ boot_pc[BOOTSTRAP] = "synchronize"
     /\ ~params.parameters.use_multiprocessing
     /\ machine.mp_response
     /\ machine.cpus > 1) ~> (boot_pc[BOOTSTRAP] \in AfterBarrier)

\* C28: when a hardware thread enters the indefinite wait, a preemption wait
\* has been armed, the timer entry of its local vector table is not masked
\* and interrupts are enabled, so that the timer can invoke the scheduler.
C28_PreemptionLive ==
    \A h \in Threads :
        boot_pc[h] = "wait_indefinite" =>
            /\ preemption_wait[h] # None
            /\ ~hw[h].timer_masked
            /\ hw[h].interrupts_enabled

\* C30: a panic halts only the panicking thread: after a thread has
\* panicked, inside a scheduler operation or outside one, it does not hold
\* the run-queue mutex, so that every other thread can still acquire it and
\* complete interrupt_task, yield_task and kill_task.
C30_PanicLeavesQueueFree ==
    \A h \in Threads : pc[h] = "panicked" => PROCESSES_lock # Some(h)

\* What interrupt_task leaves behind when it is entered with the task
\* `process` in the slot and the context `frame`, `r`: the queue, the slot
\* and the context returned to.
AfterInterruptTask(processes, process, frame, r) ==
    LET queue == Append(processes, [process EXCEPT !.context = <<frame, r>>])
    IN  [processes |-> Tail(queue), task |-> Some(Head(queue)), isf |-> Head(queue).context[1]]

\* C31: yield_task with an empty slot panics and leaves the run queue as it
\* was; with a task in the slot it does what interrupt_task does: the task
\* goes to the back of the queue with the context it was interrupted in and
\* the task at the front is switched in.
C31_YieldTask ==
    [][\A h \in Threads :
          (pc[h] = "yield_task" /\ pc'[h] # "yield_task") =>
              IF task[h] = None
              THEN pc'[h] = "panicked" /\ PROCESSES' = PROCESSES /\ task'[h] = None
              ELSE LET after == AfterInterruptTask(PROCESSES, unwrap(task[h]), isf[h], regs[h])
                   IN  /\ pc'[h] = "run"
                       /\ PROCESSES' = after.processes
                       /\ task'[h] = after.task
                       /\ isf'[h] = after.isf]_vars

\* yield_task has panicked on a thread with an empty slot while a task was
\* queued, and has switched tasks on another call: a task that is not the
\* first loaded is in a slot.
C31_Witness ==
    \E h \in Threads :
        /\ pc[h] = "panicked"
        /\ PROCESSES_lock = Some(h)
        /\ Len(PROCESSES) = 2

\* C32: for every vector v in 32..=255 the table's entry at v leads to the
\* stub that passes irq_number = v to __irq_handler, so that an interrupt
\* delivered on v is handled as v: 0x21 as the timer, 0x80 as the syscall.
C32_VectorStubIdentity ==
    /\ idt # <<>> =>
           \A vector \in 32..255 : idt[vector].stub = "__irq_stub" /\ idt[vector].irq_number = vector
    /\ (delivery.outcome = "stub" /\ delivery.vector \in 32..255) =>
           delivery.irq_number = delivery.vector

\* C33: every invocation of __irq_handler for a vector in 32..=255 ends by
\* writing exactly one end-of-interrupt, after the scheduler or syscall work,
\* and then returns.
C33_EveryIrqEndsWithEoi ==
    (delivery.handled # <<>> /\ delivery.vector \in 32..255) =>
        LET steps_taken == delivery.handled
            n == Len(steps_taken)
        IN  /\ n >= 3
            /\ steps_taken[n] = "return"
            /\ steps_taken[n - 1] = "end_of_interrupt"
            /\ Cardinality({i \in 1..n : steps_taken[i] = "end_of_interrupt"}) = 1

\* C34: in every reachable state in which a user address space exists, the
\* upper-half entries of its root table equal those of the kernel mapper's
\* root table, also after the kernel mapper has mapped a page that needed a
\* new root-level entry.
C34_KernelHalfShared ==
    user_root # None =>
        \A index \in UpperHalf :
            frame_memory[Address_index(unwrap(user_root))][index]
                = frame_memory[Address_index(kernel_root)][index]

\* C35: whenever a hardware thread holds the run-queue mutex, inside
\* interrupt_task, yield_task or kill_task, entered from the timer or the
\* syscall path, interrupts are disabled on that thread; and when the
\* operation has returned the interrupt flag is what it was when the
\* operation was called.
C35_MutexOnlyWithInterruptsDisabled ==
    \A h \in Threads :
        /\ PROCESSES_lock = Some(h) => ~hw[h].interrupts_enabled
        /\ pc[h] \in {"timer_irq", "interrupt_task", "yield_task_lock", "yield_task",
                      "kill_task", "kill_task_lock", "kill_task_next"}
               => ~hw[h].interrupts_enabled
        /\ cell[h].op = "done" => cell[h].after = cell[h].before

\* Each of the three operations has held the mutex: a yield has returned on
\* one thread after a kill, and a timer interrupt holds the mutex on another.
C35_Witness ==
    \E h, g \in Threads :
        /\ h # g
        /\ cell[h].op = "done"
        /\ PROCESSES_lock = Some(g)
        /\ cell[g].op = "interrupt_task"
        /\ syscalls > 0

\* The threads that run the reclaim procedure of a machine: the bootstrap
\* thread and the secondaries the bootloader started.
Participants == {h \in Threads : h = BOOTSTRAP \/ (machine.mp_response /\ h <= machine.cpus)}
Secondaries == Participants \ {BOOTSTRAP}
InSynchronize ==
    {"call_once", "reclaim", "entry_ready", "entry_processed", "consult", "free",
     "final_ready", "mp_entry", "once_wait", "check"}

\* C36: with multiprocessing enabled, every hardware thread that is in the
\* reclaim procedure eventually leaves its barrier loop, whatever the memory
\* map; none waits forever at a barrier or a lock.
C36_BarrierTermination ==
    \A h \in Threads :
        (params.parameters.use_multiprocessing /\ boot_pc[h] \in InSynchronize)
            ~> (boot_pc[h] \in AfterBarrier)

\* All the threads of a machine have left the loop, some entry having been
\* reclaimed on the way.
C36_Witness ==
    /\ params.parameters.use_multiprocessing
    /\ machine.mp_response
    /\ machine.cpus = NumThreads
    /\ Len(bsp.consulted) > 0
    /\ \A h \in Participants : boot_pc[h] \in AfterBarrier

\* The range of an entry holds the stack of a thread.
RangeHolds(range, h) ==
    /\ machine.stack[h] # None
    /\ range.start <= unwrap(machine.stack[h])
    /\ unwrap(machine.stack[h]) < range.end
IsPrefix(s, t) == Len(s) <= Len(t) /\ \A k \in 1..Len(s) : s[k] = t[k]

\* C37: in every round each secondary checks the range the bootstrap thread
\* published for that round, once, never a stale or a later one, and the
\* IS_ENTRY_USED the bootstrap thread loads is true exactly when the stack of
\* some secondary lies in the round's range.
C37_RoundConsistency ==
    /\ \A h \in Secondaries :
          /\ IsPrefix(hw[h].checked, bsp.published)
          /\ Len(hw[h].checked) + 1 >= Len(bsp.published)
    /\ boot_pc[BOOTSTRAP] \in {"consult", "free"} /\ bsp.published # <<>> =>
          \A h \in Secondaries : hw[h].checked = bsp.published
    /\ Len(bsp.consulted) <= Len(bsp.published)
    /\ \A k \in 1..Len(bsp.consulted) :
          /\ bsp.published[k] # None
          /\ bsp.consulted[k] = (\E h \in Secondaries : RangeHolds(unwrap(bsp.published[k]), h))

\* Two rounds have been consulted, one used by a secondary and one not.
C37_Witness ==
    /\ Secondaries # {}
    /\ \E j, k \in 1..Len(bsp.consulted) : bsp.consulted[j] /\ ~bsp.consulted[k]
    /\ \A h \in Secondaries : Len(hw[h].checked) >= 2

\* C38: a syscall result goes only to its caller. When TaskYield or TaskExit
\* switches to another task, that task resumes with the registers saved at
\* its last suspension, and the task that yielded has the result pair in the
\* rdi and rsi it will be resumed with.
C38_SyscallResultToCaller ==
    [][\A h \in Threads :
          /\ (/\ pc[h] \in {"yield_task", "kill_task_next"}
              /\ pc'[h] = "run"
              /\ task'[h] # None
              /\ (pc[h] = "yield_task" => unwrap(task'[h]).id # unwrap(task[h]).id))
             => regs'[h] = unwrap(task'[h]).context[2]
          /\ (pc[h] = "yield_task" /\ pc'[h] = "run" /\ task[h] # None)
             => \A k \in 1..Len(PROCESSES') :
                    PROCESSES'[k].id = unwrap(task[h]).id
                    => /\ PROCESSES'[k].context[2]["rdi"] = into_registers_ok[1]
                       /\ PROCESSES'[k].context[2]["rsi"] = into_registers_ok[2]]_vars

\* C39: failed mappings leave no trace. Whenever Mapper::map with lock_frame
\* set, or Mapper::auto_map under AddressSpace::mmap, returns an error, the
\* frame table is what it was before the call.
C39_FailedMapLeavesNoTrace ==
    [][/\ (/\ mapper_call'.op = "map"
           /\ mapper_call'.result \notin {"Ok", "panic"}
           /\ \E page \in MapperPages, depth \in MapperDepths, frame \in MapperFrames,
                 attributes \in MapperAttributes :
                  KernelMapper_map(page, depth, frame, TRUE, attributes))
          => table' = table
       /\ (/\ mapper_call'.op = "mmap"
           /\ mapper_calls' = mapper_calls + 1
           /\ mapper_call'.result \notin {"Ok", "panic"})
          => table' = table]_vars

\* C40: the idle context always runs as kernel code. Whenever a hardware
\* thread has been given the idle context by the scheduler (no task in its
\* slot after next_task), the interrupt frame it returns to carries the
\* kernel code and stack selectors.
C40_IdleRunsAsKernel ==
    \A h \in Threads :
        (/\ pc[h] = "run"
         /\ task[h] = None
         /\ isf[h].instruction_pointer = WAIT_INDEFINITE
         /\ isf[h].stack_pointer = Stack_top(idle_stack(h), IDLE_STACK_SIZE))
        => isf[h].code_selector = KERNEL_CS /\ isf[h].stack_selector = KERNEL_SS

====
